---- MODULE Spec2Model ----
(***************************************************************************)
(* StitchFlow PDF export: the paginated document composition engine        *)
(* (PDFEngine), the header / footer finalizer and the five document        *)
(* templates that drive them.                                              *)
(*                                                                         *)
(* All lengths are in tenths of a millimetre (the source works in mm with  *)
(* one decimal: 5.5 mm is 55).                                             *)
(***************************************************************************)
EXTENDS Integers, Sequences, FiniteSets, TLC

VARIABLES
    engine,   \* the PDFEngine instance: y, currentPage, headerHeight, doc
    last,     \* the engine-level call that ran last, with its arguments and result
    flow,     \* bookkeeping of the blocks composed so far (heights checked / added)
    calls,    \* number of engine-level calls made in this session
    limit,    \* number of calls the session may make
    tmpl,     \* the generate*PDF function that is running ("api": none, a client drives)
    pc,       \* position in the template's sequence of steps
    data,     \* the record the document is generated from
    locals,   \* the template's local y values (const startY = engine.y ...), each
              \* with the number of pages the document had when it was read
    steps,    \* the operations the running template has performed, in order
    prog,     \* the steps the running template has still to perform
    gs,       \* the renderer's graphics state: colors, line width, font
    button    \* the PdfExportButton on the page: props, state, handlers in flight

vars == <<engine, last, flow, calls, limit, tmpl, pc, data, locals, steps, prog, gs, button>>

-----------------------------------------------------------------------------
(* Geometry constants (pdfStyles.js), in tenths of mm *)

pageMarginLeft == 140
pageMarginRight == 140
pageMarginTop == 120
pageMarginBottom == 180
footerHeight == 140
pageW == 2100
pageH == 2970

marginL == pageMarginLeft
marginR == pageMarginRight
marginT == pageMarginTop
marginB == pageMarginBottom
contentW == pageW - pageMarginLeft - pageMarginRight

(* variant: the footer reserve is left out of the limit *)
bottomLimitNoFooterReserve == pageH - marginB

Max(a, b) == IF a >= b THEN a ELSE b

(* checkPageBreak / remainingHeight: the lowest y a block may reach *)
bottomLimit == pageH - marginB - footerHeight

-----------------------------------------------------------------------------
(* Bounds of the model *)

MaxPages == 4
MaxCalls == 4
MaxFlowCalls == 6
MaxComposeCalls == 1
MaxCanvasCalls == 3
MaxWrappedLines == 3
MaxExports == 3
MaxFields == 5
MaxMixedFields == 2
MaxRows == 3
MaxMetrics == 6

-----------------------------------------------------------------------------
(* The renderer (jsPDF document): page count, active page, and what has    *)
(* been drawn on each page of the kinds the properties speak about.        *)

NewDoc ==
    [ pages  |-> 1,
      page   |-> 1,
      header |-> << <<>> >>,      \* per page: the chrome drawn ("full" / "compact")
      footer |-> << <<>> >>,      \* per page: the footer stamps [page, total]
      ink    |-> << <<>> >>,      \* per page: chrome and table rows in drawing order,
                                  \* each [k: kind, y: bottom edge]
      out    |-> <<>> ]           \* outputs requested: [kind, pages]

docAddPage(doc) ==
    [doc EXCEPT !.pages  = @ + 1,
                !.page   = doc.pages + 1,
                !.header = Append(@, <<>>),
                !.footer = Append(@, <<>>),
                !.ink    = Append(@, <<>>)]

(* something of kind k, reaching down to y, is drawn on the active page *)
draw(e, k, y) == [e EXCEPT !.doc.ink[e.doc.page] = Append(@, [k |-> k, y |-> y])]

docSetPage(doc, n) == [doc EXCEPT !.page = n]

(* new PDFEngine(options) *)
PDFEngine ==
    [ y            |-> pageMarginTop,
      currentPage  |-> 1,
      headerHeight |-> 0,
      doc          |-> NewDoc ]

-----------------------------------------------------------------------------
(* pdfHeader.js *)

band1H == 260
band2H == 110
contHeaderH == 100

drawHeader(e) ==
    LET totalHeaderH == band1H + band2H
        hh           == marginT + totalHeaderH
    IN  [draw(e, "full", hh) EXCEPT !.doc.header[e.doc.page] = Append(@, "full"),
                                    !.headerHeight = hh,
                                    !.y = hh + 50]

drawContinuationHeader(e) ==
    LET hh == marginT + contHeaderH
    IN  [draw(e, "compact", hh) EXCEPT !.doc.header[e.doc.page] = Append(@, "compact"),
                                       !.headerHeight = hh,
                                       !.y = hh + 40]

-----------------------------------------------------------------------------
(* PDFEngine: page management.  headerFn is TRUE when the continuation     *)
(* header closure is passed and FALSE when the argument is null.           *)

(* variant: the cursor is not reset for the new page *)
addPageKeepsCursor(e, headerFn) ==
    LET e1 == [e EXCEPT !.doc = docAddPage(e.doc),
                        !.currentPage = @ + 1]
    IN  IF headerFn
        THEN LET e2 == drawContinuationHeader(e1)
             IN  [e2 EXCEPT !.y = e2.headerHeight + 40]
        ELSE e1

(* variant: the cursor of the new page is put below the header the       *)
(* session drew last                                                       *)
addPageBelowLastHeader(e, headerFn) ==
    LET e1 == [e EXCEPT !.doc = docAddPage(e.doc),
                        !.currentPage = @ + 1,
                        !.y = marginT]
    IN  IF headerFn
        THEN LET e2 == drawContinuationHeader(e1)
             IN  [e2 EXCEPT !.y = e2.headerHeight + 40]
        ELSE [e1 EXCEPT !.y = Max(marginT, e.headerHeight + 40)]

addPage(e, headerFn) ==
    LET e1 == [e EXCEPT !.doc = docAddPage(e.doc),
                        !.currentPage = @ + 1,
                        !.y = marginT]
    IN  IF headerFn
        THEN LET e2 == drawContinuationHeader(e1)
             IN  [e2 EXCEPT !.y = e2.headerHeight + 40]
        ELSE e1

(* variant: a block that ends exactly on the limit breaks the page *)
checkPageBreakAtLimit(e, neededHeight, headerFn) ==
    IF e.y + neededHeight >= pageH - marginB - footerHeight
    THEN [engine |-> addPage(e, headerFn), ret |-> TRUE]
    ELSE [engine |-> e, ret |-> FALSE]

(* variant: the height of the block is left out of the test *)
checkPageBreakCursorOnly(e, neededHeight, headerFn) ==
    IF e.y > pageH - marginB - footerHeight
    THEN [engine |-> addPage(e, headerFn), ret |-> TRUE]
    ELSE [engine |-> e, ret |-> FALSE]

(* variant: the check is made again on the page it created *)
checkPageBreakAgain(e, neededHeight, headerFn) ==
    IF e.y + neededHeight > pageH - marginB - footerHeight
    THEN LET e1 == addPage(e, headerFn)
         IN  [engine |-> IF e1.y + neededHeight > pageH - marginB - footerHeight
                         THEN addPage(e1, headerFn) ELSE e1,
              ret |-> TRUE]
    ELSE [engine |-> e, ret |-> FALSE]

checkPageBreak(e, neededHeight, headerFn) ==
    IF e.y + neededHeight > bottomLimit
    THEN [engine |-> addPage(e, headerFn), ret |-> TRUE]
    ELSE [engine |-> e, ret |-> FALSE]

remainingHeight(e) == bottomLimit - e.y

gap(e, mm) == [e EXCEPT !.y = @ + mm]

-----------------------------------------------------------------------------
(* PDFEngine: layout composers *)

(* variant: the header is drawn where the cursor is, without a check *)
sectionHeaderUnchecked(e, subtitle) ==
    [e EXCEPT !.y = e.y + (IF subtitle THEN 130 ELSE 90) + 30]

sectionHeader(e, subtitle) ==
    LET e1 == checkPageBreak(e, 140, FALSE).engine
        h  == IF subtitle THEN 130 ELSE 90
    IN  [e1 EXCEPT !.y = e1.y + h + 30]

(* what sectionHeader draws, in drawing order, each with the y it is put at *)
sectionHeaderDraws(e, subtitle) ==
    LET y == checkPageBreak(e, 140, FALSE).engine.y
        h == IF subtitle THEN 130 ELSE 90
    IN  << [k |-> "background", y |-> y], [k |-> "accent", y |-> y],
           [k |-> "title", y |-> y + (IF subtitle THEN 55 ELSE 58)] >>
        \o (IF subtitle THEN << [k |-> "subtitle", y |-> y + 100] >> ELSE <<>>)
        \o << [k |-> "divider", y |-> y + h] >>

(* variant: a box taller than an empty page is refused, nothing is drawn *)
summaryBoxRejectsOversize(e, nRows) ==
    LET totalH == nRows * 55 + 40 * 2
    IN  IF totalH + 40 > bottomLimit - marginT
        THEN e
        ELSE LET e1 == checkPageBreak(e, totalH + 40, FALSE).engine
             IN  [e1 EXCEPT !.y = e1.y + totalH + 40]

(* variant: the check is made for the box, without the gap below it *)
summaryBoxChecksBoxOnly(e, nRows) ==
    LET totalH == nRows * 55 + 40 * 2
        e1     == checkPageBreak(e, totalH, FALSE).engine
    IN  [e1 EXCEPT !.y = e1.y + totalH + 40]

summaryBox(e, nRows) ==
    LET rowH   == 55
        pad    == 40
        totalH == nRows * rowH + pad * 2
        e1     == checkPageBreak(e, totalH + 40, FALSE).engine
    IN  [e1 EXCEPT !.y = e1.y + totalH + 40]

(* a row of a summary box: nil for a null entry of the array *)
Row(separator, bold, highlight) ==
    [nil |-> FALSE, separator |-> separator, bold |-> bold, highlight |-> highlight]
NullRow == [nil |-> TRUE, separator |-> FALSE, bold |-> FALSE, highlight |-> FALSE]

(* variant: a separator entry is written out like a value row *)
RECURSIVE summaryBoxRowsSeparatorAsValue(_, _, _)
summaryBoxRowsSeparatorAsValue(rows, i, rowY) ==
    IF i > Len(rows)
    THEN <<>>
    ELSE IF rows[i].nil
         THEN summaryBoxRowsSeparatorAsValue(rows, i + 1, rowY)
         ELSE << [k |-> "value", y |-> rowY, fill |-> rows[i].highlight,
                  style |-> IF rows[i].bold THEN "bold" ELSE "normal"] >>
              \o summaryBoxRowsSeparatorAsValue(rows, i + 1, rowY + 55)

(* summaryBox: rows.forEach from row i on: a rule for a separator, else    *)
(* the label and value texts at rowY, over a fill if highlighted           *)
RECURSIVE summaryBoxRows(_, _, _)
summaryBoxRows(rows, i, rowY) ==
    IF i > Len(rows)
    THEN <<>>
    ELSE IF rows[i].nil
         THEN summaryBoxRows(rows, i + 1, rowY)
         ELSE IF rows[i].separator
              THEN << [k |-> "rule", y |-> rowY - 5, fill |-> FALSE, style |-> "normal"] >>
                   \o summaryBoxRows(rows, i + 1, rowY + 15)
              ELSE << [k |-> "value", y |-> rowY, fill |-> rows[i].highlight,
                       style |-> IF rows[i].bold THEN "bold" ELSE "normal"] >>
                   \o summaryBoxRows(rows, i + 1, rowY + 55)

(* what summaryBox(rows) draws inside the box, in drawing order *)
summaryBoxDraws(e, rows) ==
    LET pad == 40
        y   == checkPageBreak(e, Len(rows) * 55 + pad * 2 + 40, FALSE).engine.y
    IN  summaryBoxRows(rows, 1, y + pad + 20)

(* variant: a row of several cards is taller than a single card *)
metricCardsHeightByCount(e, count) ==
    LET cardH == 200 + (IF count > 1 THEN 30 ELSE 0)
        e1    == checkPageBreak(e, cardH + 40, FALSE).engine
    IN  [e1 EXCEPT !.y = e1.y + cardH + 40]

metricCards(e, count) ==
    LET cardH == 200
        e1    == checkPageBreak(e, cardH + 40, FALSE).engine
    IN  [e1 EXCEPT !.y = e1.y + cardH + 40]

(* the cards metricCards draws for metrics (per metric: has it a unit).    *)
(* cardW = (contentW - (count - 1) * 3) / count is not a whole number of   *)
(* tenths of mm: x and w are kept multiplied by count                      *)
metricCardBoxes(e, metrics) ==
    LET count == Len(metrics)
        cardW == contentW - (count - 1) * 30
        y     == checkPageBreak(e, 200 + 40, FALSE).engine.y
    IN  [i \in 1..count |->
            [x      |-> marginL * count + (i - 1) * (cardW + 30 * count),
             w      |-> cardW,
             y      |-> y,
             h      |-> 200,
             unitY  |-> IF metrics[i] THEN y + 140 ELSE 0,
             labelY |-> y + (IF metrics[i] THEN 190 ELSE 160)]]

(* infoGrid: fields is a sequence of [nil, fullWidth, value]; nil entries  *)
(* are the null / false entries of the array                               *)
Field(fullWidth, value) == [nil |-> FALSE, fullWidth |-> fullWidth, value |-> value]
NullField == [nil |-> TRUE, fullWidth |-> FALSE, value |-> ""]

totalFields(fields) == SelectSeq(fields, LAMBDA f : ~f.nil)

(* a value is the text String(value) gives, "null" and "undefined" being  *)
(* the values null and undefined themselves; "-" stands for the dash glyph  *)
(* put in place of a missing value                                         *)
valStr(rawVal) == IF rawVal \in {"null", "undefined", ""} THEN "-" ELSE rawVal

(* what infoGrid draws of one field: the value text at x + labelW, y *)
gridCell(f, col, y) ==
    LET colW   == contentW \div 2 - 20
        labelW == 420
        x      == IF f.fullWidth THEN marginL ELSE marginL + (IF col = 0 THEN 0 ELSE colW + 40)
    IN  [x |-> x + labelW, y |-> y, v |-> valStr(f.value)]

(* variant: a field without a value is passed over *)
RECURSIVE gridLoopSkipsMissing(_, _, _, _)
gridLoopSkipsMissing(fs, i, col, rowStartY) ==
    IF i > Len(fs)
    THEN [col |-> col, rowStartY |-> rowStartY, cells |-> <<>>]
    ELSE IF fs[i].value \in {"null", "undefined", ""}
         THEN gridLoopSkipsMissing(fs, i + 1, col, rowStartY)
         ELSE LET rowH == 55
                  y0   == IF fs[i].fullWidth /\ col = 1 THEN rowStartY + rowH ELSE rowStartY
                  r    == IF fs[i].fullWidth \/ col + 1 = 2
                          THEN gridLoopSkipsMissing(fs, i + 1, 0, y0 + rowH)
                          ELSE gridLoopSkipsMissing(fs, i + 1, col + 1, y0)
              IN  [r EXCEPT !.cells = << gridCell(fs[i], col, y0) >> \o @]

(* totalFields.forEach: the column and row y after the fields from i on,   *)
(* and the cells drawn for them                                            *)
RECURSIVE gridLoop(_, _, _, _)
gridLoop(fs, i, col, rowStartY) ==
    IF i > Len(fs)
    THEN [col |-> col, rowStartY |-> rowStartY, cells |-> <<>>]
    ELSE LET rowH == 55
             y0   == IF fs[i].fullWidth /\ col = 1 THEN rowStartY + rowH ELSE rowStartY
             c0   == IF fs[i].fullWidth THEN 0 ELSE col
             r    == IF fs[i].fullWidth
                     THEN gridLoop(fs, i + 1, 0, y0 + rowH)
                     ELSE IF col + 1 = 2
                          THEN gridLoop(fs, i + 1, 0, y0 + rowH)
                          ELSE gridLoop(fs, i + 1, col + 1, y0)
         IN  [r EXCEPT !.cells = << gridCell(fs[i], c0, y0) >> \o @]

(* variant: the rows are counted as for the background, two fields a row *)
infoGridRowsByCount(e, fields) ==
    [e EXCEPT !.y = e.y + ((Len(totalFields(fields)) + 1) \div 2) * 55 + 20]

infoGrid(e, fields) ==
    LET rowH == 55
        r    == gridLoop(totalFields(fields), 1, 0, e.y)
        endY == IF r.col = 1 THEN r.rowStartY + rowH ELSE r.rowStartY
    IN  [e EXCEPT !.y = endY + 20]

(* the value cells infoGrid draws, in drawing order *)
infoGridCells(e, fields) == gridLoop(totalFields(fields), 1, 0, e.y).cells

-----------------------------------------------------------------------------
(* PDFEngine.table: the grid is laid out by autoTable(doc, options).  Rows *)
(* have the height autoTable derives from TABLE_STYLES; a cell whose text   *)
(* is wider than its column breaks into lines (overflow: 'linebreak') and  *)
(* makes its row taller by a line for each; the head row is repeated on    *)
(* every page, the didDrawPage hook runs when a page of the table is       *)
(* finished.                                                               *)

tableHeadH == 94
tableRowH == 72
tableLineH == 32
tableMargin == 141

(* variant: the hook draws the header and leaves currentPage alone *)
didDrawPageHeaderOnly(e, pageNumber, headerFn) ==
    IF headerFn /\ pageNumber > 1 THEN drawContinuationHeader(e) ELSE e

(* the hook PDFEngine.table passes: didDrawPage(data) *)
didDrawPage(e, pageNumber, headerFn) ==
    LET e1 == [e EXCEPT !.currentPage = e.doc.page]
    IN  IF headerFn /\ pageNumber > 1 THEN drawContinuationHeader(e1) ELSE e1

nextPage(doc) ==
    IF doc.page < doc.pages THEN docSetPage(doc, doc.page + 1) ELSE docAddPage(doc)

(* the foot rows close the table's part of a page *)
drawFoot(t, footH) ==
    IF footH = 0 THEN t ELSE [t EXCEPT !.e = draw(t.e, "foot", t.cy + footH), !.cy = @ + footH]

(* variant: the column header row is drawn on the starting page only        *)
(* t: [e, cy, pageNumber, tall]                                            *)
RECURSIVE tableRowsHeadOnFirstPage(_, _, _, _)
tableRowsHeadOnFirstPage(t, rows, footH, headerFn) ==
    LET rowH == tableRowH + t.tall IN
    IF rows = 0
    THEN drawFoot(t, footH)
    ELSE IF t.cy + rowH + footH > pageH - tableMargin
         THEN LET e1 == didDrawPage(drawFoot(t, footH).e, t.pageNumber, headerFn)
                  e2 == [e1 EXCEPT !.doc = nextPage(e1.doc)]
                  e3 == draw(e2, "row", tableMargin + rowH)
              IN  tableRowsHeadOnFirstPage([e |-> e3,
                                            cy |-> tableMargin + rowH,
                                            pageNumber |-> t.pageNumber + 1,
                                            tall |-> 0],
                                           rows - 1, footH, headerFn)
         ELSE tableRowsHeadOnFirstPage([t EXCEPT !.e = draw(t.e, "row", t.cy + rowH),
                                                 !.cy = @ + rowH,
                                                 !.tall = 0],
                                       rows - 1, footH, headerFn)

(* t: [e, cy, pageNumber, tall]; rows still to draw; tall is what the     *)
(* lines of its cells add to the height of the row drawn next; footH is    *)
(* the height of the foot rows, drawn on every page                        *)
RECURSIVE tableRows(_, _, _, _)
tableRows(t, rows, footH, headerFn) ==
    LET rowH == tableRowH + t.tall IN
    IF rows = 0
    THEN drawFoot(t, footH)
    ELSE IF t.cy + rowH + footH > pageH - tableMargin
         THEN LET e1 == didDrawPage(drawFoot(t, footH).e, t.pageNumber, headerFn)
                  e2 == [e1 EXCEPT !.doc = nextPage(e1.doc)]
                  e3 == draw(e2, "head", tableMargin + tableHeadH)
                  e4 == draw(e3, "row", tableMargin + tableHeadH + rowH)
              IN  tableRows([e |-> e4,
                             cy |-> tableMargin + tableHeadH + rowH,
                             pageNumber |-> t.pageNumber + 1,
                             tall |-> 0],
                            rows - 1, footH, headerFn)
         ELSE tableRows([t EXCEPT !.e = draw(t.e, "row", t.cy + rowH),
                                  !.cy = @ + rowH,
                                  !.tall = 0],
                        rows - 1, footH, headerFn)

(* wrap: the lines the text of the first body row takes beyond one *)
autoTable(e, startY, rows, footRows, headerFn, wrap) ==
    LET footH == footRows * tableRowH
        skip  == startY + tableMargin + tableHeadH + footH > pageH
        e0    == IF skip THEN [e EXCEPT !.doc = nextPage(e.doc)] ELSE e
        cy0   == IF skip THEN tableMargin ELSE startY
        t     == tableRows([e |-> draw(e0, "head", cy0 + tableHeadH),
                            cy |-> cy0 + tableHeadH, pageNumber |-> 1,
                            tall |-> wrap * tableLineH],
                           rows, footH, headerFn)
    IN  [e |-> didDrawPage(t.e, t.pageNumber, headerFn), finalY |-> t.cy]

(* variant: the cursor the continuation callback set is kept *)
tableKeepsCallbackCursor(e, rows, footRows, headerFn, wrap) ==
    LET r == autoTable(e, e.y, rows, footRows, headerFn, wrap)
    IN  IF headerFn /\ r.e.doc.pages > e.doc.pages THEN r.e ELSE [r.e EXCEPT !.y = r.finalY + 40]

table(e, rows, footRows, headerFn, wrap) ==
    LET r == autoTable(e, e.y, rows, footRows, headerFn, wrap)
    IN  [r.e EXCEPT !.y = r.finalY + 40]

(* for (i = 1; i <= pageCount; i++): setPage(i), the text across the page *)
RECURSIVE watermarkLoop(_, _, _)
watermarkLoop(e, i, pageCount) ==
    IF i > pageCount
    THEN e
    ELSE watermarkLoop(draw([e EXCEPT !.doc = docSetPage(e.doc, i)], "watermark", pageH \div 2),
                       i + 1, pageCount)

(* variant: the pages are stamped whatever the text is *)
addWatermarkAnyText(e, hasText) == watermarkLoop(e, 1, e.doc.pages)

(* addWatermark(text): hasText is FALSE for the empty string *)
addWatermark(e, hasText) ==
    IF ~hasText THEN e ELSE watermarkLoop(e, 1, e.doc.pages)

-----------------------------------------------------------------------------
(* pdfFooter.js *)

(* variant: the total printed is the page's own number *)
drawSingleFooterPageOfPage(doc, pageNum, totalPages) ==
    [doc EXCEPT !.footer[doc.page] = Append(@, [page |-> pageNum, total |-> pageNum])]

drawSingleFooter(doc, pageNum, totalPages) ==
    [doc EXCEPT !.footer[doc.page] = Append(@, [page |-> pageNum, total |-> totalPages])]

RECURSIVE footerLoop(_, _, _)
footerLoop(doc, pageNum, totalPages) ==
    IF pageNum > totalPages
    THEN doc
    ELSE footerLoop(drawSingleFooter(docSetPage(doc, pageNum), pageNum, totalPages),
                    pageNum + 1, totalPages)

(* variant: only the page that is active gets its footer *)
drawFootersActivePageOnly(e) ==
    [e EXCEPT !.doc = drawSingleFooter(e.doc, e.doc.page, e.doc.pages)]

drawFooters(e) ==
    LET totalPages == e.doc.pages
    IN  [e EXCEPT !.doc = docSetPage(footerLoop(e.doc, 1, totalPages), totalPages)]

(* variant: the block is drawn where the cursor is, without a check *)
drawSignatureBlockUnchecked(e, sigCount) ==
    IF sigCount = 0
    THEN e
    ELSE LET e2 == gap(e, 40)
         IN  [e2 EXCEPT !.y = e2.y + 200 + 40]

drawSignatureBlock(e, sigCount) ==
    IF sigCount = 0
    THEN e
    ELSE LET blockH == 200
             e1     == checkPageBreak(e, blockH + 80, FALSE).engine
             e2     == gap(e1, 40)
             sy     == e2.y
         IN  [e2 EXCEPT !.y = sy + blockH + 40]

(* drawSignatureBlock: signatures.slice(0, 3).forEach: the columns drawn,  *)
(* each with the y of its signature line (y + blockH - 4)                  *)
signatureColumns(e, sigCount) ==
    IF sigCount = 0
    THEN <<>>
    ELSE LET shown == IF sigCount < 3 THEN sigCount ELSE 3
             lineY == drawSignatureBlock(e, sigCount).y - 40 - 40
         IN  [i \in 1..shown |-> [col |-> i - 1, lineY |-> lineY]]

(* PDFEngine.save / preview *)
save(e)    == [e EXCEPT !.doc.out = Append(@, [kind |-> "save", pages |-> e.doc.pages])]
preview(e) == [e EXCEPT !.doc.out = Append(@, [kind |-> "preview", pages |-> e.doc.pages])]

-----------------------------------------------------------------------------
(* Status badges.  A text is the sequence of its characters; a color is an *)
(* <<r, g, b>> triple and Undefined the value of a property that an object *)
(* does not have.                                                          *)

Undefined == <<>>

Colors(bg, text, border) == [bg |-> bg, text |-> text, border |-> border]

Green   == Colors(<<220, 252, 231>>, <<22, 163, 74>>, <<134, 239, 172>>)
Gray    == Colors(<<243, 244, 246>>, <<107, 114, 128>>, <<209, 213, 219>>)
Amber   == Colors(<<254, 243, 199>>, <<217, 119, 6>>, <<252, 211, 77>>)
Red     == Colors(<<254, 226, 226>>, <<220, 38, 38>>, <<252, 165, 165>>)
Blue    == Colors(<<219, 234, 254>>, <<37, 99, 235>>, <<147, 197, 253>>)
Neutral == Colors(<<243, 244, 246>>, <<55, 65, 81>>, <<209, 213, 219>>)

(* pdfStyles.js: the entries of the STATUS_COLORS object literal *)
StatusEntries ==
    << << <<"a", "c", "t", "i", "v", "e">>, Green >>,
       << <<"i", "n", "a", "c", "t", "i", "v", "e">>, Gray >>,
       << <<"p", "e", "n", "d", "i", "n", "g">>, Amber >>,
       << <<"c", "o", "m", "p", "l", "e", "t", "e", "d">>, Green >>,
       << <<"c", "a", "n", "c", "e", "l", "l", "e", "d">>, Red >>,
       << <<"d", "r", "a", "f", "t">>, Gray >>,
       << <<"a", "p", "p", "r", "o", "v", "e", "d">>, Green >>,
       << <<"r", "e", "j", "e", "c", "t", "e", "d">>, Red >>,
       << <<"i", "n", "_", "p", "r", "o", "g", "r", "e", "s", "s">>, Blue >>,
       << <<"o", "n", "_", "h", "o", "l", "d">>, Amber >>,
       << <<"d", "e", "l", "i", "v", "e", "r", "e", "d">>, Green >>,
       << <<"i", "n", "_", "t", "r", "a", "n", "s", "i", "t">>, Blue >>,
       << <<"d", "e", "f", "a", "u", "l", "t">>, Neutral >> >>

OwnKeys == { StatusEntries[i][1] : i \in DOMAIN StatusEntries }

(* names every object literal inherits from Object.prototype; their values *)
(* are functions and objects, which have no bg, text or border             *)
InheritedKeys ==
    { <<"c", "o", "n", "s", "t", "r", "u", "c", "t", "o", "r">>,
      <<"_", "_", "p", "r", "o", "t", "o", "_", "_">>,
      <<"t", "o", "S", "t", "r", "i", "n", "g">>,
      <<"v", "a", "l", "u", "e", "O", "f">>,
      <<"h", "a", "s", "O", "w", "n", "P", "r", "o", "p", "e", "r", "t", "y">> }

(* STATUS_COLORS[key]: the own entry, or the inherited member, or undefined *)
STATUS_COLORS(key) ==
    IF key \in OwnKeys
    THEN LET i == CHOOSE i \in DOMAIN StatusEntries : StatusEntries[i][1] = key
         IN  [found |-> TRUE, value |-> StatusEntries[i][2]]
    ELSE IF key \in InheritedKeys
         THEN [found |-> TRUE, value |-> Colors(Undefined, Undefined, Undefined)]
         ELSE [found |-> FALSE, value |-> Colors(Undefined, Undefined, Undefined)]

LowerOf ==
    ("A" :> "a") @@ ("B" :> "b") @@ ("C" :> "c") @@ ("D" :> "d") @@ ("E" :>
    "e") @@ ("F" :> "f") @@ ("G" :> "g") @@ ("H" :> "h") @@ ("I" :> "i") @@
    ("J" :> "j") @@ ("K" :> "k") @@ ("L" :> "l") @@ ("M" :> "m") @@ ("N" :>
    "n") @@ ("O" :> "o") @@ ("P" :> "p") @@ ("Q" :> "q") @@ ("R" :> "r") @@
    ("S" :> "s") @@ ("T" :> "t") @@ ("U" :> "u") @@ ("V" :> "v") @@ ("W" :>
    "w") @@ ("X" :> "x") @@ ("Y" :> "y") @@ ("Z" :> "z")

toLowerCase(s) == [i \in DOMAIN s |-> IF s[i] \in DOMAIN LowerOf THEN LowerOf[s[i]] ELSE s[i]]

Whitespace == {" ", "\t"}

RECURSIVE skipWhitespace(_)
skipWhitespace(s) ==
    IF s # <<>> /\ Head(s) \in Whitespace THEN skipWhitespace(Tail(s)) ELSE s

(* s.replace(/\s+/g, '_') *)
RECURSIVE replaceWhitespace(_)
replaceWhitespace(s) ==
    IF s = <<>>
    THEN <<>>
    ELSE IF Head(s) \in Whitespace
         THEN << "_" >> \o replaceWhitespace(skipWhitespace(s))
         ELSE << Head(s) >> \o replaceWhitespace(Tail(s))

statusKey(status) == replaceWhitespace(toLowerCase(status))

(* pdfHeader.js _resolveStatus: STATUS_COLORS[key] || STATUS_COLORS.default *)
resolveStatus(status) ==
    LET key == statusKey(status)
        hit == STATUS_COLORS(key)
    IN  IF hit.found THEN hit.value ELSE STATUS_COLORS(<< "d", "e", "f", "a", "u", "l", "t" >>).value

(* PDFEngine.badge: the rounded box in colors.bg and colors.border, then   *)
(* the label in colors.text; setFillColor(...colors.bg) raises a TypeError *)
(* when colors.bg is undefined, and nothing is drawn                       *)
badge(e, colors) ==
    IF colors.bg = Undefined
    THEN [engine |-> e, raised |-> TRUE, drawn |-> <<>>]
    ELSE [engine |-> e, raised |-> FALSE, drawn |-> << colors >>]

-----------------------------------------------------------------------------
(* Engine-level sessions: a client of the exported API (index.js) calls    *)
(* the engine operations in any order.                                     *)

CheckHeights == {500, 2100, 2530}
RowCounts == {3, 8, 45}
NoCall == [op |-> "new", h |-> 0, fn |-> FALSE, y0 |-> 0, pages0 |-> 0, ret |-> FALSE,
           arg |-> 0, drawn |-> <<>>]
(* PdfExportButton: const [loading, ...] = useState(false), ... *)
NewState == [loading |-> FALSE, dropOpen |-> FALSE, activeAction |-> "null"]

(* a button as it is mounted; seen is the state the closures of the last   *)
(* render hold, inflight the actions whose fn() is awaited                 *)
PdfExportButton(props) ==
    [ props |-> props, state |-> NewState, seen |-> NewState, inflight |-> <<>>,
      started |-> 0, logged |-> 0, escaped |-> FALSE ]

(* no button on the page, or one that is left alone *)
NoButton ==
    PdfExportButton([disabled |-> FALSE, fns |-> {}, split |-> FALSE, shown |-> {}])

(* the renderer as jsPDF creates it *)
NewGState ==
    [ fillColor |-> "black", drawColor |-> "black", lineWidth |-> 2,
      fontSize |-> 16, fontStyle |-> "normal", textColor |-> "black" ]

NoFlow == [H |-> 0, n |-> 0, maxH |-> 0, ok |-> TRUE, breakCum |-> -1, breakH |-> 0]

Regs == {"startY", "savedY", "saved", "noteY"}
NoLocals == [r \in Regs |-> [y |-> 0, pages |-> 1]]
NoData == [flags |-> {}, notes |-> 0, rows |-> 0, rows2 |-> 0, n |-> 0, wrap |-> 0]

(* one more non-splittable block of height h has been composed; broke tells *)
(* whether the page-break check made for it created a page                 *)
addBlock(f, h, checked, broke) ==
    [ H        |-> f.H + h,
      n        |-> f.n + 1,
      maxH     |-> Max(f.maxH, h),
      ok       |-> f.ok /\ checked,
      breakCum |-> IF broke /\ f.breakCum < 0 THEN f.H ELSE f.breakCum,
      breakH   |-> IF broke /\ f.breakCum < 0 THEN h ELSE f.breakH ]

(* a call with a list argument: arg is the list (or its length) and drawn *)
(* what the call drew of it, in drawing order                             *)
CallList(op, h, fn, arg, e2, ret, drawn, f2) ==
    /\ calls < limit
    /\ e2.doc.pages <= MaxPages
    /\ engine' = e2
    /\ last' = [op |-> op, h |-> h, fn |-> fn, y0 |-> engine.y,
                pages0 |-> engine.doc.pages, ret |-> ret,
                arg |-> arg, drawn |-> drawn]
    /\ flow' = f2
    /\ calls' = calls + 1
    /\ UNCHANGED <<limit, tmpl, pc, data, locals, steps, prog, gs, button>>

Call(op, h, fn, e2, ret, f2) == CallList(op, h, fn, 0, e2, ret, <<>>, f2)

Undisciplined == [flow EXCEPT !.ok = FALSE]

InitEngine ==
    /\ engine = PDFEngine
    /\ last = NoCall
    /\ gs = NewGState
    /\ button = NoButton
    /\ flow = NoFlow
    /\ calls = 0
    /\ limit = MaxCalls
    /\ tmpl = "api"
    /\ pc = 0
    /\ data = NoData
    /\ locals = NoLocals
    /\ steps = <<>>
    /\ prog = <<>>

CallDrawHeader ==
    Call("drawHeader", 0, FALSE, drawHeader(engine), FALSE, Undisciplined)

CallAddPage ==
    \E fn \in BOOLEAN :
        Call("addPage", 0, fn, addPage(engine, fn), FALSE, Undisciplined)

CallCheckPageBreak ==
    \E h \in CheckHeights, fn \in BOOLEAN :
        LET r == checkPageBreak(engine, h, fn)
        IN  Call("checkPageBreak", h, fn, r.engine, r.ret,
                 IF last.op = "checkPageBreak" THEN Undisciplined ELSE flow)

(* a height no empty page offers *)
OversizeHeight == bottomLimit - marginT + 70

CallCheckPageBreakOversize ==
    \E fn \in BOOLEAN :
        LET r == checkPageBreak(engine, OversizeHeight, fn)
        IN  Call("checkPageBreak", OversizeHeight, fn, r.engine, r.ret, Undisciplined)

CallGap ==
    \E mm \in CheckHeights :
        Call("gap", mm, FALSE, gap(engine, mm), FALSE,
             addBlock(flow, mm,
                      last.op = "checkPageBreak" /\ last.h = mm,
                      last.op = "checkPageBreak" /\ last.ret))

CallSectionHeader ==
    \E subtitle \in BOOLEAN :
        CallList("sectionHeader", 140, FALSE, subtitle, sectionHeader(engine, subtitle),
                 checkPageBreak(engine, 140, FALSE).ret,
                 sectionHeaderDraws(engine, subtitle), Undisciplined)

CallSummaryBox ==
    \E nRows \in RowCounts :
        LET h == nRows * 55 + 80 + 40
            r == checkPageBreak(engine, h, FALSE).ret
        IN  Call("summaryBox", h, FALSE, summaryBox(engine, nRows), r,
                 addBlock(flow, h, last.op # "checkPageBreak", r))

CallMetricCards ==
    LET r == checkPageBreak(engine, 240, FALSE).ret
    IN  Call("metricCards", 240, FALSE, metricCards(engine, 5), r,
             addBlock(flow, 240, last.op # "checkPageBreak", r))

CallDrawSignatureBlock ==
    \E sigCount \in {0, 3, 5} :
        CallList("drawSignatureBlock", 280, FALSE, sigCount,
                 drawSignatureBlock(engine, sigCount),
                 sigCount > 0 /\ checkPageBreak(engine, 280, FALSE).ret,
                 signatureColumns(engine, sigCount), Undisciplined)

CallDrawFooters ==
    Call("drawFooters", 0, FALSE, drawFooters(engine), FALSE, flow)

CallAddWatermark ==
    \E hasText \in BOOLEAN :
        Call("addWatermark", 0, hasText, addWatermark(engine, hasText), FALSE, flow)

CallSave ==
    Call("save", 0, FALSE, save(engine), FALSE, flow)

CallPreview ==
    Call("preview", 0, FALSE, preview(engine), FALSE, flow)

NextEngine ==
    \/ CallDrawHeader
    \/ CallAddPage
    \/ CallCheckPageBreak
    \/ CallCheckPageBreakOversize
    \/ CallGap
    \/ CallSectionHeader
    \/ CallSummaryBox
    \/ CallMetricCards
    \/ CallDrawSignatureBlock
    \/ CallDrawFooters
    \/ CallAddWatermark
    \/ CallSave
    \/ CallPreview

SpecEngine == InitEngine /\ [][NextEngine]_vars

(* Block flows: a client composes non-splittable blocks, each one guarded   *)
(* by a page-break check (its own, or a checkPageBreak call before it).    *)

InitFlow ==
    /\ engine = PDFEngine
    /\ last = NoCall
    /\ gs = NewGState
    /\ button = NoButton
    /\ flow = NoFlow
    /\ calls = 0
    /\ limit = MaxFlowCalls
    /\ tmpl = "api"
    /\ pc = 0
    /\ data = NoData
    /\ locals = NoLocals
    /\ steps = <<>>
    /\ prog = <<>>

NextFlow ==
    \/ CallCheckPageBreak
    \/ CallGap
    \/ CallSummaryBox
    \/ CallMetricCards

SpecFlow == InitFlow /\ [][NextFlow]_vars

(* Composer sessions: a client lays out the composers of the engine, each  *)
(* given a list (fields, rows, metrics) or a text.                         *)

SeqsUpTo(S, n) == UNION { [1..k -> S] : k \in 0..n }

GridValues == {"v", "", "null", "undefined", "0"}

HalfWidth(vs) == [i \in DOMAIN vs |-> Field(FALSE, vs[i])]

FieldLists ==
    { HalfWidth(vs) : vs \in SeqsUpTo(GridValues, MaxMixedFields)
                            \cup UNION { [1..k -> {"v", ""}] : k \in 3..MaxFields } }
    \cup { << Field(FALSE, "v"), Field(TRUE, ""), Field(FALSE, "v") >>,
           << Field(FALSE, ""), NullField, Field(FALSE, "v"), Field(TRUE, "v") >> }

(* where a composer may find the engine: as constructed, under the page   *)
(* header, or with the cursor taken down to the bottom limit; and on a     *)
(* second page, with and without a continuation header, with the cursor at *)
(* the same places                                                         *)
ComposeStarts ==
    LET second == addPage(drawHeader(PDFEngine), TRUE)
    IN  { PDFEngine, drawHeader(PDFEngine), gap(PDFEngine, 2530),
          gap(drawHeader(PDFEngine), 2100),
          addPage(PDFEngine, FALSE), gap(second, bottomLimit - second.y) }

InitCompose ==
    /\ engine \in ComposeStarts
    /\ last = NoCall
    /\ gs = NewGState
    /\ button = NoButton
    /\ flow = NoFlow
    /\ calls = 0
    /\ limit = MaxComposeCalls
    /\ tmpl = "api"
    /\ pc = 0
    /\ data = NoData
    /\ locals = NoLocals
    /\ steps = <<>>
    /\ prog = <<>>

ComposeInfoGrid ==
    \E fields \in FieldLists :
        CallList("infoGrid", 0, FALSE, fields, infoGrid(engine, fields), FALSE,
                 infoGridCells(engine, fields), Undisciplined)

RowKinds ==
    { Row(FALSE, FALSE, FALSE), Row(TRUE, FALSE, FALSE), Row(FALSE, TRUE, TRUE),
      Row(FALSE, TRUE, FALSE), NullRow }

ComposeSummaryBox ==
    \E rows \in SeqsUpTo(RowKinds, MaxRows) :
        LET h == Len(rows) * 55 + 80 + 40
        IN  CallList("summaryBox", h, FALSE, rows, summaryBox(engine, Len(rows)),
                     checkPageBreak(engine, h, FALSE).ret,
                     summaryBoxDraws(engine, rows), Undisciplined)

Statuses ==
    { <<"a", "c", "t", "i", "v", "e">>,
      <<"A", "c", "t", "i", "v", "e">>,
      <<"I", "n", " ", "P", "r", "o", "g", "r", "e", "s", "s">>,
      <<"o", "n", " ", " ", "h", "o", "l", "d">>,
      <<"s", "h", "i", "p", "p", "e", "d">>,
      <<"d", "e", "f", "a", "u", "l", "t">>,
      <<"t", "o", "S", "t", "r", "i", "n", "g">>,
      <<"c", "o", "n", "s", "t", "r", "u", "c", "t", "o", "r">>,
      <<>> }

(* drawHeader: if (status) { statusDef = _resolveStatus(status); ...       *)
(* engine.badge(badgeLabel, statusDef, badgeX, band2Y + 7) }               *)
ComposeBadge ==
    \E status \in Statuses \ {<<>>} :
        LET colors == resolveStatus(status)
            r      == badge(engine, colors)
        IN  CallList("badge", 0, FALSE, status, r.engine, r.raised,
                     << colors >>, Undisciplined)

(* metrics: per card, whether it has a unit line *)
ComposeMetricCards ==
    \E metrics \in UNION { [1..k -> BOOLEAN] : k \in 1..MaxMetrics } :
        CallList("metricCards", 240, FALSE, metrics, metricCards(engine, Len(metrics)),
                 checkPageBreak(engine, 240, FALSE).ret,
                 metricCardBoxes(engine, metrics), Undisciplined)

ComposeSectionHeader ==
    \E subtitle \in BOOLEAN :
        CallList("sectionHeader", 140, FALSE, subtitle, sectionHeader(engine, subtitle),
                 checkPageBreak(engine, 140, FALSE).ret,
                 sectionHeaderDraws(engine, subtitle), Undisciplined)

NextCompose ==
    \/ ComposeInfoGrid
    \/ ComposeSummaryBox
    \/ ComposeBadge
    \/ ComposeMetricCards
    \/ ComposeSectionHeader

SpecCompose == InitCompose /\ [][NextCompose]_vars

-----------------------------------------------------------------------------
(* The canvas primitives.  The renderer keeps one fill color, one draw     *)
(* color, one line width and one font (size, style, text color); a mark    *)
(* takes the values they have when it is made.  Colors are named as in     *)
(* COLORS, line widths are in tenths of mm, font sizes in points.          *)

fontSizeBody == 9
dividerH == 3

NoMark ==
    [ k |-> "-", style |-> "-", fillColor |-> "-", drawColor |-> "-", lineWidth |-> 0,
      fontSize |-> 0, fontStyle |-> "-", textColor |-> "-" ]

(* doc.rect / doc.roundedRect with style 'F' or 'FD' *)
docRect(g, style) ==
    [ NoMark EXCEPT !.k = "rect", !.style = style, !.fillColor = g.fillColor,
                    !.drawColor = IF style = "FD" THEN g.drawColor ELSE "-",
                    !.lineWidth = IF style = "FD" THEN g.lineWidth ELSE 0 ]

docLine(g) == [ NoMark EXCEPT !.k = "line", !.drawColor = g.drawColor, !.lineWidth = g.lineWidth ]

docText(g) ==
    [ NoMark EXCEPT !.k = "text", !.fontSize = g.fontSize, !.fontStyle = g.fontStyle,
                    !.textColor = g.textColor ]

setFill(g, color) == [g EXCEPT !.fillColor = color]
setStroke(g, color) == [g EXCEPT !.drawColor = color]
setLineWidth(g, w) == [g EXCEPT !.lineWidth = w]
setFont(g, size, style, color) ==
    [g EXCEPT !.fontSize = size, !.fontStyle = style, !.textColor = color]

(* an argument or option that was not passed takes its default *)
Arg(a, key, default) == IF key \in DOMAIN a THEN a[key] ELSE default

Drawn(e, g, marks) == [engine |-> e, gs |-> g, marks |-> marks]

(* variant: the line width of the outline is left as it is *)
rectKeepsLineWidth(e, g, a) ==
    LET strokeColor == Arg(a, "strokeColor", "null")
        g1 == setFill(g, a.fillColor)
        g2 == IF strokeColor # "null" THEN setStroke(g1, strokeColor) ELSE g1
    IN  Drawn(e, g2, << docRect(g2, IF strokeColor # "null" THEN "FD" ELSE "F") >>)

rect(e, g, a) ==
    LET strokeColor == Arg(a, "strokeColor", "null")
        g1 == setFill(g, a.fillColor)
        g2 == IF strokeColor # "null" THEN setLineWidth(setStroke(g1, strokeColor), 3) ELSE g1
    IN  Drawn(e, g2, << docRect(g2, IF strokeColor # "null" THEN "FD" ELSE "F") >>)

hrule(e, g, a) ==
    LET thickness == Arg(a, "thickness", dividerH)
        g2 == setLineWidth(setStroke(g, Arg(a, "color", "gray300")), thickness)
    IN  Drawn(IF "y" \in DOMAIN a THEN e ELSE [e EXCEPT !.y = @ + thickness + 10],
              g2, << docLine(g2) >>)

vrule(e, g, a) ==
    LET g2 == setLineWidth(setStroke(g, Arg(a, "color", "gray300")), Arg(a, "thickness", 3))
    IN  Drawn(e, g2, << docLine(g2) >>)

fontOf(g, opts) ==
    setFont(g, Arg(opts, "size", fontSizeBody), Arg(opts, "style", "normal"),
            Arg(opts, "color", "gray900"))

text(e, g, opts) == LET g2 == fontOf(g, opts) IN Drawn(e, g2, << docText(g2) >>)

writeLine(e, g, opts) ==
    LET size == Arg(opts, "size", fontSizeBody)
        lineH == Arg(opts, "lineH", size * 4 + 20)
        g2 == fontOf(g, opts)
    IN  Drawn([e EXCEPT !.y = @ + lineH], g2, << docText(g2) >>)

writeWrapped(e, g, opts) == LET g2 == fontOf(g, opts) IN Drawn(e, g2, << docText(g2) >>)

(* textWidth sets the font size and style to measure, and draws nothing *)
textWidth(e, g, a) ==
    Drawn(e, [g EXCEPT !.fontSize = Arg(a, "size", fontSizeBody),
                       !.fontStyle = Arg(a, "style", "normal")], <<>>)

DrawingCalls == {"rect", "hrule", "vrule", "text", "writeLine", "writeWrapped"}

canvas(op, e, g, a) ==
    CASE op = "rect"         -> rect(e, g, a)
      [] op = "hrule"        -> hrule(e, g, a)
      [] op = "vrule"        -> vrule(e, g, a)
      [] op = "text"         -> text(e, g, a)
      [] op = "writeLine"    -> writeLine(e, g, a)
      [] op = "writeWrapped" -> writeWrapped(e, g, a)
      [] op = "textWidth"    -> textWidth(e, g, a)
      [] op = "setFill"      -> Drawn(e, setFill(g, a.color), <<>>)
      [] op = "setStroke"    -> Drawn(e, setStroke(g, a.color), <<>>)
      [] op = "setLineWidth" -> Drawn(e, setLineWidth(g, a.w), <<>>)
      [] op = "setFont"      -> Drawn(e, fontOf(g, a), <<>>)

(* the argument records: a with and without the option key *)
With(as, key, vals) == as \cup { a @@ (key :> v) : a \in as, v \in vals }

FontOpts(base) ==
    With(With(With({base}, "size", {7}), "style", {"bold"}), "color", {"primary"})

RectArgs ==
    With({[fillColor |-> "primary"], [fillColor |-> "white"]}, "strokeColor", {"null", "gray300"})
RuleArgs(base) == With(With({base}, "color", {"primary"}), "thickness", {5})

(* a session of canvas calls on a new engine *)
InitCanvas ==
    /\ engine = PDFEngine
    /\ last = NoCall
    /\ gs = NewGState
    /\ button = NoButton
    /\ flow = NoFlow
    /\ calls = 0
    /\ limit = MaxCanvasCalls
    /\ tmpl = "api"
    /\ pc = 0
    /\ data = NoData
    /\ locals = NoLocals
    /\ steps = <<>>
    /\ prog = <<>>

CanvasCall(op, a) ==
    LET r == canvas(op, engine, gs, a) IN
    /\ calls < limit
    /\ engine' = r.engine
    /\ gs' = r.gs
    /\ last' = [op |-> op, h |-> 0, fn |-> FALSE, y0 |-> engine.y,
                pages0 |-> engine.doc.pages, ret |-> FALSE,
                arg |-> a, drawn |-> r.marks, gs0 |-> gs]
    /\ calls' = calls + 1
    /\ UNCHANGED <<flow, limit, tmpl, pc, data, locals, steps, prog, button>>

CanvasRect == \E a \in RectArgs : CanvasCall("rect", a)
CanvasHrule == \E a \in RuleArgs([x |-> marginL]) \cup RuleArgs([y |-> 500]) : CanvasCall("hrule", a)
CanvasVrule == \E a \in RuleArgs([x |-> marginL]) : CanvasCall("vrule", a)
CanvasText == \E a \in FontOpts([text |-> "a"]) : CanvasCall("text", a)
CanvasWriteLine == \E a \in FontOpts([text |-> "a"]) : CanvasCall("writeLine", a)
CanvasWriteWrapped == \E a \in FontOpts([text |-> "a"]) : CanvasCall("writeWrapped", a)
CanvasTextWidth ==
    \E a \in With(With({[text |-> "a"]}, "size", {7}), "style", {"bold"}) :
        CanvasCall("textWidth", a)
CanvasSetFill == \E c \in {"gray100", "primary"} : CanvasCall("setFill", [color |-> c])
CanvasSetStroke == \E c \in {"gray100", "primary"} : CanvasCall("setStroke", [color |-> c])
CanvasSetLineWidth == \E w \in {2, 5} : CanvasCall("setLineWidth", [w |-> w])
CanvasSetFont == \E a \in FontOpts([size |-> 9]) : CanvasCall("setFont", a)

NextCanvas ==
    \/ CanvasRect
    \/ CanvasHrule
    \/ CanvasVrule
    \/ CanvasText
    \/ CanvasWriteLine
    \/ CanvasWriteWrapped
    \/ CanvasTextWidth
    \/ CanvasSetFill
    \/ CanvasSetStroke
    \/ CanvasSetLineWidth
    \/ CanvasSetFont

SpecCanvas == InitCanvas /\ [][NextCanvas]_vars

-----------------------------------------------------------------------------
(* PdfExportButton (React).  The event handlers of a render close over the *)
(* state of that render; the state updates made in a click are committed,  *)
(* and the component rendered again, before the next event is dispatched;  *)
(* updates made after an await are committed by a render of their own.     *)

ExportActions == {"download", "preview", "print"}

(* variant: the handlers keep the closure of the first render *)
renderOnce(b) == b

(* the component function runs again: its handlers see the current state *)
render(b) == [b EXCEPT !.seen = b.state]

(* handleAction(action, fn) up to await fn(); fn is props.onExport,        *)
(* onPreview or onPrint, null when the prop is not given                   *)
handleAction(b, action) ==
    IF action \notin b.props.fns \/ b.seen.loading \/ b.props.disabled
    THEN b
    ELSE [b EXCEPT !.state = [loading |-> TRUE, dropOpen |-> FALSE, activeAction |-> action],
                   !.inflight = Append(@, action),
                   !.started = @ + 1]

(* handleAction from await fn() on: catch (err) { console.error } finally  *)
(* { setLoading(false); setActiveAction(null) }                            *)
settle(b, threw) ==
    LET rethrown == FALSE   \* the catch block logs, and has no throw
    IN
    [b EXCEPT !.logged = IF threw THEN @ + 1 ELSE @,
              !.escaped = @ \/ (threw /\ rethrown),
              !.state.loading = FALSE,
              !.state.activeAction = "null",
              !.inflight = Tail(@)]

(* the items of the dropdown: .filter(item => item.show) *)
dropdownItems(b) ==
    {"download"} \cup { a \in {"preview", "print"} : a \in b.props.shown /\ a \in b.props.fns }

Props ==
    { p \in [disabled : BOOLEAN, fns : SUBSET ExportActions, split : BOOLEAN,
             shown : SUBSET {"preview", "print"}] : ~p.split => p.shown = {} }

InitButton ==
    /\ button \in { PdfExportButton(p) : p \in Props }
    /\ engine = PDFEngine
    /\ last = NoCall
    /\ gs = NewGState
    /\ flow = NoFlow
    /\ calls = 0
    /\ limit = 0
    /\ tmpl = "api"
    /\ pc = 0
    /\ data = NoData
    /\ locals = NoLocals
    /\ steps = <<>>
    /\ prog = <<>>

Page == <<engine, last, flow, calls, limit, tmpl, pc, data, locals, steps, prog, gs>>

(* <button onClick={() => handleAction('download', onExport)}              *)
(*         disabled={isLoading || disabled}>                               *)
ClickDownload ==
    /\ ~(button.seen.loading \/ button.props.disabled)
    /\ button.started < MaxExports
    /\ button' = render(handleAction(button, "download"))
    /\ UNCHANGED Page

(* the dropdown toggle: onClick={() => setDropOpen(prev => !prev)} *)
ClickToggle ==
    /\ button.props.split
    /\ ~(button.seen.loading \/ button.props.disabled)
    /\ button' = render([button EXCEPT !.state.dropOpen = ~@])
    /\ UNCHANGED Page

(* an item of the open dropdown: disabled={isLoading} *)
ClickItem ==
    /\ button.props.split
    /\ button.seen.dropOpen
    /\ ~button.seen.loading
    /\ button.started < MaxExports
    /\ \E a \in dropdownItems(button) : button' = render(handleAction(button, a))
    /\ UNCHANGED Page

(* mousedown outside the dropdown, while it is open *)
ClickOutside ==
    /\ button.seen.dropOpen
    /\ button' = render([button EXCEPT !.state.dropOpen = FALSE])
    /\ UNCHANGED Page

(* the promise of fn() settles: fulfilled, or rejected *)
Settle ==
    /\ button.inflight # <<>>
    /\ \E threw \in BOOLEAN : button' = settle(button, threw)
    /\ UNCHANGED Page

(* the render that commits the updates made after the await *)
Render ==
    /\ button.seen # button.state
    /\ button' = render(button)
    /\ UNCHANGED Page

NextButton ==
    \/ ClickDownload
    \/ ClickToggle
    \/ ClickItem
    \/ ClickOutside
    \/ Settle
    \/ Render

SpecButton == InitButton /\ [][NextButton]_vars

-----------------------------------------------------------------------------
(* The templates.  A generate*PDF function is a straight-line sequence of  *)
(* engine calls and assignments to engine.y, the conditionals and loops    *)
(* being decided by the data record; it is kept as the sequence of the     *)
(* steps it performs, each step one instruction.                           *)

Ins(op, h, b, n, r) == [op |-> op, h |-> h, b |-> b, n |-> n, r |-> r]

CPB(h, fn)    == << Ins("checkPageBreak", h, fn, 0, "") >>
SEC           == << Ins("sectionHeader", 0, FALSE, 0, "") >>
(* variant: a section header is composed before the page header *)
HeaderAfterSection == SEC \o << Ins("drawHeader", 0, FALSE, 0, "") >>
HEADER        == << Ins("drawHeader", 0, FALSE, 0, "") >>
CARDS(n)      == << Ins("metricCards", 0, FALSE, n, "") >>
GRID(n, full) == << Ins("infoGrid", 0, full, n, "") >>
SBOX(n)       == << Ins("summaryBox", 0, FALSE, n, "") >>
(* the columns arrays the templates pass to engine.table: the width of    *)
(* each column                                                             *)
columns(name) ==
    CASE name = "monthlyProjection"  -> << 650, 400, 450 >>
      [] name = "items"              -> << 80, 450, 150, 210, 210, 230, 230, 260 >>
      [] name = "paymentHistory"     -> << 80, 280, 260, 300, 580, 320 >>
      [] name = "weightSummary"      -> << 350, 400, 400, 380, 290 >>
      [] name = "yarnDetails"        -> << 170, 400, 190, 170, 130, 170, 210, 120, 210 >>
      [] name = "versionHistory"     -> << 190, 290, 390, 430, 270, 250 >>
      [] name = "challans"           -> << 270, 200, 200, 110, 170, 230, 210, 240, 190 >>
      [] name = "overdue"            -> << 280, 220, 220, 250, 200, 220, 200, 230 >>
      [] name = "performance"        -> << 500, 380, 520, 420 >>

(* variant: the width is taken as the right edge of the column *)
columnStylesCumulative(cols) ==
    [i \in DOMAIN cols |-> [cellWidth |-> cols[i] + (IF i = 1 THEN 0 ELSE cols[i - 1])]]

(* PDFEngine.table: columnStyles[col.dataKey] = { cellWidth: col.width } *)
columnStyles(cols) == [i \in DOMAIN cols |-> [cellWidth |-> cols[i]]]

TABLE(name, rows, foot, fn) == << Ins("table", foot, fn, rows, name) >>
GAP(h)        == << Ins("gap", h, FALSE, 0, "") >>
Capture(r)    == << Ins("let", 0, FALSE, 0, r) >>       \* const r = engine.y
SETY(r, d)    == << Ins("sety", d, FALSE, 0, r) >>      \* engine.y = r + d
ADDY(d)       == << Ins("addy", d, FALSE, 0, "") >>     \* engine.y = engine.y + d
MAXY(r, d)    == << Ins("maxy", d, FALSE, 0, r) >>      \* engine.y = Math.max(engine.y, r + d)
SIGN(n)       == << Ins("drawSignatureBlock", 0, FALSE, n, "") >>
MARK(b)       == << Ins("addWatermark", 0, b, 0, "") >>
FOOTERS       == << Ins("drawFooters", 0, FALSE, 0, "") >>
SAVE          == << Ins("save", 0, FALSE, 0, "") >>
PREVIEW       == << Ins("preview", 0, FALSE, 0, "") >>

When(c, p) == IF c THEN p ELSE <<>>
Count(c) == IF c THEN 1 ELSE 0

RECURSIVE Times(_, _)
Times(k, p) == IF k = 0 THEN <<>> ELSE p \o Times(k - 1, p)

(* n half-width fields followed, if full, by one fullWidth field *)
RECURSIVE HalfFields(_)
HalfFields(n) == IF n = 0 THEN <<>> ELSE Append(HalfFields(n - 1), Field(FALSE, "v"))
GridFields(n, full) ==
    HalfFields(n) \o (IF full THEN << Field(TRUE, "v") >> ELSE << NullField >>)

(* _drawNotesBlock / _drawRemarksBlock: blockH = lines * 4.5 + 10 *)
notesBlockH(lines) == lines * 45 + 100

(* variant: the footers are stamped before the signature block is drawn *)
outputFootersFirst(d) ==
    FOOTERS
    \o SIGN(3)
    \o When("watermark" \in d.flags, MARK(TRUE))
    \o (IF "preview" \in d.flags THEN PREVIEW ELSE SAVE)

(* the closing steps every template ends with *)
output(d) ==
    SIGN(3)
    \o When("watermark" \in d.flags, MARK(TRUE))
    \o FOOTERS
    \o (IF "preview" \in d.flags THEN PREVIEW ELSE SAVE)

(* ---- productionTemplate.js ---- *)

drawLoomParameters == CPB(380, FALSE) \o ADDY(280 + 50) \o CPB(160, FALSE) \o ADDY(100 + 90)

drawCalculationBreakdown(headerFn) == Times(3, CPB(300, headerFn) \o ADDY(280 + 40))

drawMonthlyProjection(headerFn) ==
    TABLE("monthlyProjection", 5, 0, headerFn) \o Capture("noteY") \o CPB(100, FALSE) \o SETY("noteY", 130)

drawReferenceData(d) == When(d.n > 0, GRID(d.n, FALSE))

drawNotesBlock(d) == ADDY(notesBlockH(d.notes) + 50)

generateProductionPDF(d) ==
    LET hasRefData == d.n > 0 \/ "referenceData" \in d.flags
    IN  HEADER
        \o SEC \o CARDS(5)
        \o CPB(550, TRUE) \o SEC \o drawLoomParameters
        \o CPB(800, TRUE) \o SEC \o drawCalculationBreakdown(TRUE)
        \o CPB(550, TRUE) \o SEC \o drawMonthlyProjection(TRUE)
        \o When(hasRefData, CPB(400, TRUE) \o SEC \o drawReferenceData(d))
        \o When(d.notes > 0, CPB(300, TRUE) \o SEC \o drawNotesBlock(d))
        \o output(d)

(* ---- challanTemplate.js ---- *)

miniCardHeight(rowCount) == 70 + rowCount * 55 + 30

drawInfoColumns(d) ==
    LET challanRows == 4 + Count("daysOverdue" \in d.flags)
        leftH  == miniCardHeight(IF challanRows > 4 THEN 5 ELSE 4)
        rightH == miniCardHeight(challanRows)
    IN  Capture("startY") \o SETY("startY", Max(leftH, rightH) + 50)

drawItemsTable(d, headerFn) == TABLE("items", d.rows, 1, headerFn)

challanFinancialSummary(d) ==
    LET hasInterest == "hasInterest" \in d.flags
        totalPaid   == "totalPaid" \in d.flags
        remaining   == "remaining" \in d.flags
        barH        == 90
        barGap      == 40
        items       == 1 + Count(hasInterest) + Count(totalPaid) + Count(remaining)
        summaryRows == 1 + Count(hasInterest) + 2 + (IF totalPaid THEN 3 ELSE 0)
    IN  CPB(500, FALSE)
        \o Capture("savedY")
        \o ADDY(0 - items * (barH + barGap))
        \o SBOX(summaryRows)
        \o MAXY("savedY", 50)
        \o When("daysOverdue" \in d.flags /\ "open" \in d.flags,
                CPB(120, FALSE) \o ADDY(140))

drawPaymentHistory(d, headerFn) == TABLE("paymentHistory", d.rows2, 1, headerFn)

generateChallanPDF(d) ==
    HEADER
    \o SEC \o CARDS(5)
    \o CPB(550, TRUE) \o SEC \o drawInfoColumns(d)
    \o CPB(400, TRUE) \o SEC \o drawItemsTable(d, TRUE)
    \o CPB(500, TRUE) \o SEC \o challanFinancialSummary(d)
    \o When(d.rows2 > 0, CPB(400, TRUE) \o SEC \o drawPaymentHistory(d, TRUE))
    \o When(d.notes > 0, CPB(300, TRUE) \o SEC \o drawNotesBlock(d))
    \o output(d)

(* ---- estimateTemplate.js ---- *)

columnHeight(rowCount) == 70 + rowCount * 55 + 30

(* saved = engine.y; engine.y = y; ... ; engine.y = saved *)
drawDetailColumn(r) == Capture("saved") \o SETY(r, 0) \o SETY("saved", 0)

drawYarnSection(d, isWarp, headerFn) ==
    LET yarnSpecRows == Count("tpm" \in d.flags) + Count("filamentCount" \in d.flags) + 3
    IN  CPB(220, headerFn) \o ADDY(180 + 40)
        \o CPB(550, headerFn)
        \o Capture("startY")
        \o drawDetailColumn("startY")
        \o drawDetailColumn("startY")
        \o SETY("startY", Max(columnHeight(IF isWarp THEN 3 ELSE 4),
                              columnHeight(yarnSpecRows)) + 60)
        \o CPB(220, headerFn) \o ADDY(200 + 50)

drawCostBreakdown(d, headerFn) ==
    LET barH      == 90
        barGap    == 40
        costItems == 2 + Count("weft2Enabled" \in d.flags) + Count("otherCostPerMeter" \in d.flags)
    IN  CPB(costItems * 100 + 200, headerFn)
        \o ADDY(costItems * (barH + barGap) + 30)
        \o Capture("savedY")
        \o SETY("savedY", 0)
        \o SBOX(costItems + 2)
        \o MAXY("savedY", 0)

drawVersionHistory(d) ==
    TABLE("versionHistory", IF d.rows2 > 10 THEN 10 ELSE d.rows2, 0, FALSE)

generateEstimatePDF(d) ==
    LET weft2 == "weft2Enabled" \in d.flags
        tags  == "tags" \in d.flags
    IN  HEADER
        \o SEC \o CARDS(5)
        \o When(tags \/ "currentVersion" \in d.flags, GRID(4, tags))
        \o CPB(550, TRUE) \o SEC \o TABLE("weightSummary", 3 + Count(weft2), 0, TRUE)
        \o CPB(800, TRUE) \o SEC \o drawYarnSection(d, TRUE, TRUE)
        \o CPB(800, TRUE) \o SEC \o drawYarnSection(d, FALSE, TRUE)
        \o When(weft2, CPB(800, TRUE) \o SEC \o drawYarnSection(d, FALSE, TRUE))
        \o CPB(500, TRUE) \o SEC \o TABLE("yarnDetails", 2 + Count(weft2), 0, TRUE)
        \o CPB(500, TRUE) \o SEC \o drawCostBreakdown(d, TRUE)
        \o When(d.notes > 0, CPB(300, TRUE) \o SEC \o drawNotesBlock(d))
        \o When(d.rows2 > 0, CPB(400, TRUE) \o SEC \o drawVersionHistory(d))
        \o output(d)

(* ---- partyTemplate.js ---- *)

partyBoxHeight(fieldCount) == 80 + fieldCount * 65 + 30

drawPartyIdentity ==
    CPB(180, FALSE) \o ADDY(140 + 40)
    \o CPB(420, FALSE) \o ADDY(partyBoxHeight(5) + 50)

drawCreditConfig(d) ==
    CPB(300, FALSE) \o ADDY(180 + 40)
    \o When("isOverLimit" \in d.flags, CPB(120, FALSE) \o ADDY(100 + 40))
    \o CPB(400, FALSE) \o ADDY(partyBoxHeight(4) + 50)

drawPaymentPerformance ==
    CPB(240, FALSE) \o ADDY(200 + 50)
    \o CPB(280, FALSE)
    \o Times(2, CPB(120, FALSE) \o ADDY(140))
    \o CPB(140, FALSE) \o GAP(20) \o ADDY(120 + 50)

partyFinancialSummary ==
    CPB(500, FALSE)
    \o Capture("startY")
    \o Capture("savedY")
    \o SETY("startY", 0)
    \o SBOX(8)
    \o MAXY("startY", 5 * 100 + 50)

drawChallanTable(d, headerFn) == TABLE("challans", d.rows, 0, headerFn)

drawOverdueTable(d, headerFn) ==
    TABLE("overdue", d.rows2, 1, headerFn) \o CPB(160, FALSE) \o ADDY(130 + 50)

drawNoChallanBlock == CPB(180 + 40, FALSE) \o ADDY(180 + 50)

generatePartyPDF(d) ==
    LET stats == "stats" \in d.flags
    IN  HEADER
        \o SEC \o drawPartyIdentity
        \o CPB(550, TRUE) \o SEC \o drawCreditConfig(d)
        \o When(stats, CPB(300, TRUE) \o SEC \o CARDS(5))
        \o When(stats, CPB(550, TRUE) \o SEC \o drawPaymentPerformance)
        \o When(stats, CPB(500, TRUE) \o SEC \o partyFinancialSummary)
        \o (IF d.rows > 0
            THEN CPB(400, TRUE) \o SEC \o drawChallanTable(d, TRUE)
            ELSE CPB(200, TRUE) \o SEC \o drawNoChallanBlock)
        \o When(d.rows2 > 0, CPB(400, TRUE) \o SEC \o drawOverdueTable(d, TRUE))
        \o output(d)

(* ---- productionEntryTemplate.js ---- *)

entryBoxHeight(fieldCount) == 100 + fieldCount * 65 + 30

drawBasicInfo == CPB(140, FALSE) \o ADDY(120 + 40) \o GRID(6, FALSE)

drawEquipmentDetails ==
    CPB(entryBoxHeight(4) + 60, FALSE) \o ADDY(entryBoxHeight(4) + 50)

drawProductionMetrics(d) ==
    CPB(500, FALSE) \o ADDY(140 + 40)
    \o CPB(300, FALSE)
    \o CARDS(4 + Count("actualPicks" \in d.flags) + Count("beamLengthUsed" \in d.flags))

drawPerformanceAnalysis ==
    CPB(220, FALSE) \o ADDY(180 + 40)
    \o CPB(450, FALSE) \o TABLE("performance", 5, 0, FALSE)
    \o CPB(160, FALSE) \o ADDY(120 + 50)

drawDefectSection(d) ==
    CPB(300, FALSE) \o ADDY(140 + 40)
    \o When("types" \in d.flags,
            CPB(200, FALSE) \o ADDY((d.n - 1) * (80 + 20) + 80 + 50))
    \o When("description" \in d.flags,
            CPB(180, FALSE) \o ADDY(2 * 45 + 80 + 50))
    \o When("metersProduced" \in d.flags /\ "count" \in d.flags,
            CPB(120, FALSE) \o ADDY(100 + 50))

drawDowntimeSection ==
    CPB(280, FALSE) \o ADDY(160 + 40) \o CPB(120, FALSE) \o ADDY(100 + 50)

drawRemarksBlock(d) ==
    CPB(notesBlockH(d.notes) + 40, FALSE) \o ADDY(notesBlockH(d.notes) + 50)

generateProductionEntryPDF(d) ==
    HEADER
    \o SEC \o CARDS(5)
    \o CPB(400, TRUE) \o SEC \o drawBasicInfo
    \o CPB(500, TRUE) \o SEC \o drawEquipmentDetails
    \o CPB(550, TRUE) \o SEC \o drawProductionMetrics(d)
    \o CPB(550, TRUE) \o SEC \o drawPerformanceAnalysis
    \o When("count" \in d.flags \/ "types" \in d.flags,
            CPB(450, TRUE) \o SEC \o drawDefectSection(d))
    \o When("loomStoppageTime" \in d.flags, CPB(350, TRUE) \o SEC \o drawDowntimeSection)
    \o When(d.notes > 0, CPB(250, TRUE) \o SEC \o drawRemarksBlock(d))
    \o CPB(300, TRUE) \o SEC \o GRID(4, TRUE)
    \o output(d)

-----------------------------------------------------------------------------
(* Running a template: the data it is given, and one action per kind of    *)
(* step.                                                                   *)

Templates == {"production", "challan", "estimate", "party", "productionEntry"}

NoteLines == {0, 3, 45}

(* the lines by which a text of the record overflows its table cell *)
WrappedLines == {0, MaxWrappedLines}

Records(flags, notes, rows, rows2, n) ==
    [flags : SUBSET flags, notes : notes, rows : rows, rows2 : rows2, n : n,
     wrap : WrappedLines]

DataOf(t) ==
    CASE t = "production" ->
            Records({"referenceData", "watermark", "preview"}, NoteLines, {0}, {0}, {0, 3})
      [] t = "challan" ->
            Records({"daysOverdue", "open", "hasInterest", "totalPaid", "remaining",
                     "watermark", "preview"}, {0, 3}, {1, 30}, {0, 2}, {0})
      [] t = "estimate" ->
            Records({"tags", "currentVersion", "weft2Enabled", "otherCostPerMeter", "tpm",
                     "watermark", "preview"}, {0, 3}, {0}, {0, 12}, {0})
      [] t = "party" ->
            { d \in Records({"isOverLimit", "stats", "watermark", "preview"},
                            {0}, {0, 5, 40}, {0, 3}, {0}) : d.rows2 <= d.rows }
      [] t = "productionEntry" ->
            Records({"actualPicks", "count", "types", "description", "metersProduced",
                     "loomStoppageTime", "watermark", "preview"}, NoteLines, {0}, {0}, {1, 2})

Program(t, d) ==
    CASE t = "production"      -> generateProductionPDF(d)
      [] t = "challan"         -> generateChallanPDF(d)
      [] t = "estimate"        -> generateEstimatePDF(d)
      [] t = "party"           -> generatePartyPDF(d)
      [] t = "productionEntry" -> generateProductionEntryPDF(d)

Cur == Head(prog)

At(op) == prog # <<>> /\ Cur.op = op

DoList(e2, ret, loc2, drawn) ==
    /\ engine' = e2
    /\ last' = [op |-> Cur.op, h |-> Cur.h, fn |-> Cur.b, y0 |-> engine.y,
                pages0 |-> engine.doc.pages, ret |-> ret,
                arg |-> Cur.n, drawn |-> drawn]
    /\ locals' = loc2
    /\ pc' = pc + 1
    /\ steps' = Append(steps, Cur.op)
    /\ prog' = Tail(prog)
    /\ UNCHANGED <<flow, calls, limit, tmpl, data, gs, button>>

Do(e2, ret, loc2) == DoList(e2, ret, loc2, <<>>)

Init ==
    /\ tmpl \in Templates
    /\ data \in DataOf(tmpl)
    /\ engine = PDFEngine
    /\ last = NoCall
    /\ gs = NewGState
    /\ button = NoButton
    /\ flow = NoFlow
    /\ calls = 0
    /\ limit = 0
    /\ pc = 0
    /\ locals = NoLocals
    /\ steps = <<>>
    /\ prog = Program(tmpl, data)

StepDrawHeader == At("drawHeader") /\ Do(drawHeader(engine), FALSE, locals)

StepCheckPageBreak ==
    /\ At("checkPageBreak")
    /\ LET r == checkPageBreak(engine, Cur.h, Cur.b) IN Do(r.engine, r.ret, locals)

StepSectionHeader ==
    /\ At("sectionHeader")
    /\ Do(sectionHeader(engine, Cur.b), checkPageBreak(engine, 140, FALSE).ret, locals)

StepMetricCards ==
    /\ At("metricCards")
    /\ Do(metricCards(engine, Cur.n), checkPageBreak(engine, 240, FALSE).ret, locals)

StepInfoGrid == At("infoGrid") /\ Do(infoGrid(engine, GridFields(Cur.n, Cur.b)), FALSE, locals)

StepSummaryBox ==
    /\ At("summaryBox")
    /\ Do(summaryBox(engine, Cur.n),
          checkPageBreak(engine, Cur.n * 55 + 80 + 40, FALSE).ret, locals)

StepTable ==
    /\ At("table")
    /\ DoList(table(engine, Cur.n, Cur.h, Cur.b, data.wrap), FALSE, locals,
              columnStyles(columns(Cur.r)))

StepGap == At("gap") /\ Do(gap(engine, Cur.h), FALSE, locals)

StepLet ==
    /\ At("let")
    /\ Do(engine, FALSE, [locals EXCEPT ![Cur.r] = [y |-> engine.y, pages |-> engine.doc.pages]])

StepSetY == At("sety") /\ Do([engine EXCEPT !.y = locals[Cur.r].y + Cur.h], FALSE, locals)

StepAddY == At("addy") /\ Do([engine EXCEPT !.y = engine.y + Cur.h], FALSE, locals)

StepMaxY ==
    /\ At("maxy")
    /\ Do([engine EXCEPT !.y = Max(engine.y, locals[Cur.r].y + Cur.h)], FALSE, locals)

StepDrawSignatureBlock ==
    /\ At("drawSignatureBlock")
    /\ DoList(drawSignatureBlock(engine, Cur.n),
              Cur.n > 0 /\ checkPageBreak(engine, 280, FALSE).ret, locals,
              signatureColumns(engine, Cur.n))

StepAddWatermark == At("addWatermark") /\ Do(addWatermark(engine, Cur.b), FALSE, locals)

StepDrawFooters == At("drawFooters") /\ Do(drawFooters(engine), FALSE, locals)

StepSave == At("save") /\ Do(save(engine), FALSE, locals)

StepPreview == At("preview") /\ Do(preview(engine), FALSE, locals)

Next ==
    \/ StepDrawHeader
    \/ StepCheckPageBreak
    \/ StepSectionHeader
    \/ StepMetricCards
    \/ StepInfoGrid
    \/ StepSummaryBox
    \/ StepTable
    \/ StepGap
    \/ StepLet
    \/ StepSetY
    \/ StepAddY
    \/ StepMaxY
    \/ StepDrawSignatureBlock
    \/ StepAddWatermark
    \/ StepDrawFooters
    \/ StepSave
    \/ StepPreview

Spec == Init /\ [][Next]_vars

(* Every session of the export service: a template run, or a client of the *)
(* exported API driving the engine itself.                                 *)
InitAll == Init \/ InitEngine

NextAll == Next \/ NextEngine

SpecAll == InitAll /\ [][NextAll]_vars

-----------------------------------------------------------------------------
(* Properties of the pagination controller *)

CeilDiv(a, b) == (a + b - 1) \div b

Pages == engine.doc.pages

PageCreated == Pages = last.pages0 + 1

(* no continuation header has been drawn in this session *)
NoChrome == \A p \in 1..Pages : engine.doc.header[p] = <<>>

(* every block composed so far was guarded by a check of its own height,   *)
(* and no check is pending                                                 *)
FlowComplete == flow.ok /\ flow.n >= 1 /\ last.op # "checkPageBreak"

(* the y at which a fresh page starts in this session *)
TopOfFreshPage == IF NoChrome THEN 120 ELSE 120 + 100 + 40

(* the draws of chrome: <<page, index>> of every header drawn so far *)
HeaderDraws == UNION { { <<p, i>> : i \in DOMAIN engine.doc.header[p] } : p \in 1..Pages }

(* number of times the continuation-header callback has run *)
Callbacks == Cardinality({ x \in HeaderDraws : engine.doc.header[x[1]][x[2]] = "compact" })

(* C1 (as stated): in every composition run the continuation-header        *)
(* callback has been invoked exactly pages - 1 times, once for every page  *)
(* after the first, whichever operation created the page.                  *)
C1_CallbackPerPage ==
    /\ Callbacks = Pages - 1
    /\ \A p \in 2..Pages : engine.doc.header[p] = <<"compact">>

(* C3 (as stated): while no page is created, no engine or template         *)
(* operation leaves engine.y below its value before the operation.         *)
C3_CursorMonotone ==
    [][engine'.doc.pages = engine.doc.pages => engine'.y >= engine.y]_vars

(* C2 (as stated): a guarded flow of cumulative height H ends with exactly *)
(* ceil(H / U) pages, U being the usable height 297 - 18 - 14 - 12 mm.     *)
C2_ExactlyCeilPages ==
    FlowComplete => Pages = CeilDiv(flow.H, 2970 - 180 - 140 - 120)

(* C2 (amended): when every block fits on an empty page, a guarded flow of *)
(* cumulative height H ends with at least ceil(H / U) pages and at most    *)
(* one page more than it has blocks.                                       *)
C2_AtLeastCeilPages ==
    (FlowComplete /\ flow.maxH <= 2970 - 180 - 140 - TopOfFreshPage)
        => /\ Pages >= CeilDiv(flow.H, 2970 - 180 - 140 - 120)
           /\ Pages <= flow.n + 1

C2_Witness ==
    FlowComplete /\ flow.n = 3 /\ flow.H = 3100 /\ Pages = 3 /\ flow.maxH = 2100

(* C4 (as stated): right after a page break the cursor is at top margin    *)
(* plus the height of the chrome drawn on the new page.                    *)
ChromeHeightOn(p) == IF engine.doc.header[p] = <<>> THEN 0 ELSE 100

C4_ResetToMarginPlusChrome ==
    (last.op \in {"addPage", "checkPageBreak"} /\ PageCreated)
        => engine.y = 120 + ChromeHeightOn(Pages)

(* C4 (amended): right after addPage the cursor is at the top margin when  *)
(* no continuation callback was passed, and at headerHeight + 4 mm (top    *)
(* margin + compact header height + 4 mm = 26 mm) when one was; one call   *)
(* creates one page and resets the cursor for it.                          *)
C4_ResetAfterAddPage ==
    (last.op = "addPage" \/ (last.op = "checkPageBreak" /\ last.ret))
        => /\ Pages = last.pages0 + 1
           /\ engine.currentPage = Pages
           /\ engine.y = IF last.fn THEN 120 + 100 + 40 ELSE 120
           /\ last.fn => engine.y = engine.headerHeight + 40

C4_Witness ==
    last.op = "addPage" /\ last.fn /\ engine.y = 260 /\ Pages = 2

(* C6: checkPageBreak(neededHeight, fn) creates a page iff                  *)
(* y + neededHeight > pageHeight - bottomMargin - footerReserve; it then    *)
(* resets the cursor to the top margin and, if fn was supplied, invokes fn  *)
(* once on the new page and sets the cursor to headerHeight + 4 mm; it      *)
(* returns true exactly when it created a page.                            *)
C6_CheckPageBreak ==
    last.op = "checkPageBreak"
        => /\ PageCreated <=> (last.y0 + last.h > 2970 - 180 - 140)
           /\ last.ret <=> PageCreated
           /\ ~PageCreated => (Pages = last.pages0 /\ engine.y = last.y0)
           /\ (PageCreated /\ ~last.fn)
                 => (engine.y = 120 /\ engine.doc.header[Pages] = <<>>)
           /\ (PageCreated /\ last.fn)
                 => /\ engine.doc.header[Pages] = <<"compact">>
                    /\ engine.y = engine.headerHeight + 40

C6_Witness ==
    last.op = "checkPageBreak" /\ last.ret /\ last.fn /\ last.y0 + last.h \in 2651..2790

C6_WitnessExactFit ==
    last.op = "checkPageBreak" /\ ~last.ret /\ last.y0 + last.h = 2650

(* C10 (as stated): usable height 267 mm; 310 mm of content gives exactly  *)
(* 2 pages, the break falling at the first block that would take page 1    *)
(* past 267 mm.                                                            *)
C10_Usable267 ==
    (FlowComplete /\ NoChrome /\ flow.H = 3100)
        => /\ Pages = 2
           /\ flow.breakCum >= 0
           /\ flow.breakCum <= 2670
           /\ flow.breakCum + flow.breakH > 2670

(* C10 (amended): usable height 297 - 18 - 14 - 12 = 253 mm; 310 mm of     *)
(* content gives at least 2 pages, exactly 2 when what follows the first   *)
(* break fits in 253 mm, and the first break falls at the first block that *)
(* would take page 1 past 253 mm.                                          *)
C10_Usable253 ==
    (FlowComplete /\ NoChrome /\ flow.H = 3100)
        => /\ remainingHeight(PDFEngine) = 2530
           /\ Pages >= 2
           /\ flow.breakCum >= 0
           /\ flow.breakCum <= 2530
           /\ flow.breakCum + flow.breakH > 2530
           /\ (3100 - flow.breakCum <= 2530) => Pages = 2

C10_Witness ==
    FlowComplete /\ NoChrome /\ flow.H = 3100 /\ Pages = 2 /\ flow.breakCum = 1000

-----------------------------------------------------------------------------
(* Properties of the footer finalizer and of the templates' control flow *)

Footer(p) == engine.doc.footer[p]

Stamp(i, N) == [page |-> i, total |-> N]

Outputs == {"save", "preview"}

(* drawFooters has just returned, and it was the first call of it *)
FirstFootersReturned == last.op = "drawFooters" /\ Len(Footer(1)) = 1

C7_StampedTotalIsFinal ==
    last.op \in Outputs
        => \A p \in 1..Pages : \A i \in DOMAIN Footer(p) : Footer(p)[i].total = Pages

(* C7 (amended): nothing guards the engine after drawFooters; the N that   *)
(* the latest drawFooters stamped is the page count at that call, pages    *)
(* created later carry no stamp, and in a template run, where nothing      *)
(* follows drawFooters but the output, N is the page count of the document *)
(* output.                                                                 *)
C7_StampIsCountAtFinalize ==
    /\ Footer(1) # <<>>
          => LET N == Footer(1)[Len(Footer(1))].total
             IN  /\ N <= Pages
                 /\ \A p \in 1..N : Footer(p)[Len(Footer(p))] = Stamp(p, N)
                 /\ \A p \in (N + 1)..Pages : Footer(p) = <<>>
    /\ (tmpl # "api" /\ last.op \in Outputs)
          => \A p \in 1..Pages : Footer(p) = << Stamp(p, Pages) >>

(* a page was added after the footers were stamped: "Page 1 of 1" in a     *)
(* document of two pages                                                   *)
C7_Witness ==
    /\ last.op = "addPage"
    /\ Pages = 2
    /\ Footer(1) = << Stamp(1, 1) >>
    /\ Footer(2) = <<>>

Content == {"drawHeader", "checkPageBreak", "sectionHeader", "metricCards", "infoGrid",
            "summaryBox", "table", "gap", "let", "sety", "addy", "maxy"}

StepsOf(ops) == { i \in DOMAIN steps : steps[i] \in ops }

(* C8: in each template all content composers come first, then             *)
(* drawSignatureBlock, then drawFooters exactly once, then exactly one of   *)
(* save / preview; nothing but the output follows drawFooters and no       *)
(* output precedes it.                                                     *)
C8_PhaseOrder ==
    LET sign    == StepsOf({"drawSignatureBlock"})
        footers == StepsOf({"drawFooters"})
        outs    == StepsOf(Outputs)
    IN  /\ Cardinality(sign) <= 1
        /\ Cardinality(footers) <= 1
        /\ Cardinality(outs) <= 1
        /\ \A i \in StepsOf(Content) : \A j \in sign : i < j
        /\ \A j \in footers : sign # {} /\ \A i \in sign : i < j
        /\ \A j \in footers : \A k \in DOMAIN steps : k > j => steps[k] \in Outputs
        /\ \A k \in outs : footers # {} /\ k = Len(steps) /\ prog = <<>>
        /\ prog = <<>> => Cardinality(sign) = 1 /\ Cardinality(footers) = 1
                              /\ Cardinality(outs) = 1

C8_Witness ==
    /\ prog = <<>>
    /\ last.op = "preview"
    /\ StepsOf({"addWatermark"}) # {}
    /\ Pages >= 2

(* C9: drawHeader is the first step of every template run, runs once per   *)
(* document, and draws on page 1 only.                                     *)
C9_HeaderFirstAndOnce ==
    /\ steps # <<>> => steps[1] = "drawHeader"
    /\ StepsOf({"drawHeader"}) \subseteq {1}
    /\ \A x \in HeaderDraws :
          engine.doc.header[x[1]][x[2]] = "full" <=> x = <<1, 1>>
    /\ steps # <<>> => <<1, 1>> \in HeaderDraws

C9_Witness ==
    /\ prog = <<>>
    /\ Pages >= 2
    /\ engine.doc.header[1] = <<"full">>
    /\ engine.doc.header[2] = <<"compact">>

-----------------------------------------------------------------------------
(* Properties of the layout composers *)

(* the cursor at which the composer that ran last started to draw: its own *)
(* page-break check has been made                                          *)
PostCheckY == IF last.ret THEN marginT ELSE last.y0

(* the height an empty page offers to one block *)
UsableHeight == bottomLimit - marginT

(* C11 (as stated): a block whose neededHeight exceeds the usable height   *)
(* of an empty page is not drawn and no page is created for it: the        *)
(* composition stops with an error.                                        *)
C11_OversizeBlockRejected ==
    (last.op = "summaryBox" /\ last.h > UsableHeight)
        => (engine.y = last.y0 /\ Pages = last.pages0)

(* C11 (amended): nothing is raised for a block whose neededHeight exceeds *)
(* the usable height of an empty page: the page-break check creates one    *)
(* page, no more, and the block is drawn from the top of it, ending below  *)
(* the bottom limit pageHeight - bottomMargin - footerReserve.             *)
C11_OversizeBlockOverflows ==
    (last.op = "summaryBox" /\ last.h > UsableHeight)
        => /\ last.ret
           /\ Pages = last.pages0 + 1
           /\ engine.currentPage = Pages
           /\ engine.y = marginT + last.h
           /\ engine.y > bottomLimit

C11_Witness ==
    last.op = "summaryBox" /\ last.h = 45 * 55 + 80 + 40 /\ Pages = 2 /\ engine.y = 2715

-----------------------------------------------------------------------------
(* Properties of PDFEngine.table *)

(* what the step from e to e2 drew on page p *)
NewInk(e, e2, p) ==
    IF p <= e.doc.pages
    THEN SubSeq(e2.doc.ink[p], Len(e.doc.ink[p]) + 1, Len(e2.doc.ink[p]))
    ELSE e2.doc.ink[p]

Marks(s, ks) == { i \in DOMAIN s : s[i].k \in ks }

TableMarks == {"head", "row", "foot"}

(* the pages on which the step from e to e2 drew rows of a table *)
TablePages(e, e2) ==
    { p \in 1..e2.doc.pages : Marks(NewInk(e, e2, p), TableMarks) # {} }

(* C12 (as stated): when a table with a continuation callback spans several *)
(* pages, the callback fires exactly once on every page of the table after  *)
(* the one it starts on, before any table row is drawn on that page, and    *)
(* not on the page the table starts on.                                    *)
C12_CallbackBeforeRows ==
    [][(last'.op = "table" /\ last'.fn)
          => LET ps == TablePages(engine, engine')
             IN  \A p \in ps :
                    LET s    == NewInk(engine, engine', p)
                        cb   == Marks(s, {"compact"})
                        rows == Marks(s, TableMarks)
                    IN  IF \A q \in ps : p <= q
                        THEN cb = {}
                        ELSE /\ Cardinality(cb) = 1
                             /\ \A i \in cb : \A j \in rows : i < j]_vars

(* C13: a table draws its column header row first on the page it starts on *)
(* and once more at the top of every further page it occupies, before the   *)
(* body rows of that page.                                                  *)
C13_HeadRowOnEveryPage ==
    [][last'.op = "table"
          => LET ps == TablePages(engine, engine')
             IN  /\ ps # {}
                 /\ \A p \in ps :
                       LET s     == NewInk(engine, engine', p)
                           heads == Marks(s, {"head"})
                           first == CHOOSE i \in Marks(s, TableMarks) :
                                        \A j \in Marks(s, TableMarks) : i <= j
                       IN  /\ heads = {first}
                           /\ (\E q \in ps : q < p)
                                 => first = 1 /\ s[first].y = tableMargin + tableHeadH]_vars

C13_Witness ==
    /\ last.op = "table"
    /\ Pages = last.pages0 + 1
    /\ Marks(engine.doc.ink[Pages - 1], {"head"}) # {}
    /\ Len(engine.doc.ink[Pages]) >= 2
    /\ engine.doc.ink[Pages][1] = [k |-> "head", y |-> tableMargin + tableHeadH]
    /\ engine.doc.ink[Pages][2].k = "row"

(* the table mark drawn last on the active page *)
LastTableMark ==
    LET s == engine.doc.ink[engine.doc.page]
        i == CHOOSE i \in Marks(s, TableMarks) : \A j \in Marks(s, TableMarks) : j <= i
    IN  s[i]

(* C14: when table() returns, the cursor is 4 mm below the bottom of the    *)
(* table's last row, on the last page the table reached, whatever cursor    *)
(* the continuation callback set meanwhile, and currentPage is that page.   *)
C14_CursorBelowLastRow ==
    last.op = "table"
        => /\ Marks(engine.doc.ink[engine.doc.page], TableMarks) # {}
           /\ \A p \in (engine.doc.page + 1)..Pages : engine.doc.ink[p] = <<>>
           /\ engine.currentPage = engine.doc.page
           /\ engine.y = LastTableMark.y + 40

(* the callback ran on the table's last page and left the cursor at 26 mm;  *)
(* the table ends lower on that page                                        *)
C14_Witness ==
    /\ last.op = "table"
    /\ last.fn
    /\ Pages > last.pages0
    /\ engine.doc.ink[Pages][Len(engine.doc.ink[Pages])].k = "compact"
    /\ engine.headerHeight + 40 = 260
    /\ engine.y > 260
    /\ engine.currentPage = Pages

-----------------------------------------------------------------------------
(* Properties of the signature block *)

(* C15: drawSignatureBlock draws at most three columns, one per entry up   *)
(* to three; with an empty list it draws nothing and leaves cursor and     *)
(* pages as they were; otherwise it creates a page exactly when less than  *)
(* the block's 28 mm remain above the bottom limit, and the block, its     *)
(* signature lines and the final cursor lie at or above                    *)
(* pageHeight - bottomMargin - footerReserve.                              *)
C15_SignatureBlockFits ==
    last.op = "drawSignatureBlock"
        => /\ Len(last.drawn) <= 3
           /\ Len(last.drawn) = (IF last.arg < 3 THEN last.arg ELSE 3)
           /\ last.arg = 0
                 => (engine.y = last.y0 /\ Pages = last.pages0 /\ ~last.ret)
           /\ last.arg > 0
                 => /\ PageCreated <=> (2970 - 180 - 140 - last.y0 < 200 + 80)
                    /\ last.ret <=> PageCreated
                    /\ engine.y = PostCheckY + 40 + 200 + 40
                    /\ engine.y <= 2970 - 180 - 140
                    /\ \A i \in DOMAIN last.drawn : last.drawn[i].lineY < engine.y

(* five signatories, three columns, drawn on a page of their own *)
C15_Witness ==
    /\ last.op = "drawSignatureBlock"
    /\ last.arg = 5
    /\ Len(last.drawn) = 3
    /\ PageCreated
    /\ engine.y = 400

C15_WitnessEmpty == last.op = "drawSignatureBlock" /\ last.arg = 0 /\ last.y0 > 120

-----------------------------------------------------------------------------
(* Properties of the composers *)

Missing == {"null", "undefined", ""}

AllHalfWidth(fs) == \A i \in DOMAIN fs : ~fs[i].nil /\ ~fs[i].fullWidth

(* C16: infoGrid draws one value cell for every field of the list, in      *)
(* order, raising nothing; the cell of a field whose value is null,        *)
(* undefined or the empty string reads as the dash and takes its grid slot *)
(* like any other, so n half-width fields fill ceil(n / 2) rows of 5.5 mm, *)
(* two to a row.                                                           *)
C16_MissingValueKeepsSlot ==
    last.op = "infoGrid"
        => LET fs    == totalFields(last.arg)
               cells == last.drawn
           IN  /\ Len(cells) = Len(fs)
               /\ Pages = last.pages0
               /\ \A i \in DOMAIN fs :
                     cells[i].v = (IF fs[i].value \in Missing THEN "-" ELSE fs[i].value)
               /\ AllHalfWidth(last.arg)
                     => /\ \A i \in DOMAIN fs :
                              /\ cells[i].y = last.y0 + ((i - 1) \div 2) * 55
                              /\ cells[i].x = 420 + (IF i % 2 = 1 THEN 140 ELSE 140 + 890 + 40)
                        /\ Cardinality({ cells[i].y : i \in DOMAIN cells })
                              = CeilDiv(Len(fs), 2)
                        /\ engine.y = last.y0 + CeilDiv(Len(fs), 2) * 55 + 20

(* five fields, the third without a value: three rows, a dash in row 2 *)
C16_Witness ==
    /\ last.op = "infoGrid"
    /\ Len(last.arg) = 5
    /\ last.arg[3].value = ""
    /\ last.drawn[3] = [x |-> 560, y |-> last.y0 + 55, v |-> "-"]
    /\ engine.y = last.y0 + 3 * 55 + 20

(* the entries of a list that are rows (not null) *)
RowsOf(rows) == SelectSeq(rows, LAMBDA r : ~r.nil)

(* C17: summaryBox draws, in order, one rule for each separator row and    *)
(* one value row for each other row of the list (Subtotal, separator,      *)
(* Total: 2 value rows and 1 rule); a row flagged highlight is drawn over  *)
(* a background fill and a row flagged bold in bold weight, which a plain  *)
(* row is not.                                                             *)
C17_OneDrawPerRow ==
    last.op = "summaryBox"
        => LET rows  == RowsOf(last.arg)
               draws == last.drawn
           IN  /\ Len(draws) = Len(rows)
               /\ \A i \in DOMAIN rows :
                     /\ draws[i].k = (IF rows[i].separator THEN "rule" ELSE "value")
                     /\ ~rows[i].separator
                           => /\ draws[i].fill = rows[i].highlight
                              /\ draws[i].style = (IF rows[i].bold THEN "bold" ELSE "normal")
               /\ Cardinality(Marks(draws, {"value"}))
                     = Cardinality({ i \in DOMAIN rows : ~rows[i].separator })
               /\ Cardinality(Marks(draws, {"rule"}))
                     = Cardinality({ i \in DOMAIN rows : rows[i].separator })
               /\ \A i \in DOMAIN draws : draws[i].y > PostCheckY

(* Subtotal, separator, Total (bold and highlighted) *)
C17_Witness ==
    /\ last.op = "summaryBox"
    /\ last.arg = << Row(FALSE, FALSE, FALSE), Row(TRUE, FALSE, FALSE), Row(FALSE, TRUE, TRUE) >>
    /\ Len(last.drawn) = 3
    /\ last.drawn[1] = [k |-> "value", y |-> last.y0 + 60, fill |-> FALSE, style |-> "normal"]
    /\ last.drawn[2].k = "rule"
    /\ last.drawn[3] = [k |-> "value", y |-> last.y0 + 60 + 55 + 15, fill |-> TRUE,
                         style |-> "bold"]

(* C18 (as stated): the lookup is total: a status whose key is an entry of *)
(* the status-color mapping gets that entry's colors and any other status  *)
(* the default neutral colors, never undefined ones; drawing the badge     *)
(* raises nothing and leaves the cursor where it was.                      *)
C18_LookupTotal ==
    last.op = "badge"
        => LET key    == statusKey(last.arg)
               colors == last.drawn[1]
           IN  /\ key \in OwnKeys => colors = STATUS_COLORS(key).value
               /\ key \notin OwnKeys => colors = Neutral
               /\ colors \in {Green, Gray, Amber, Red, Blue, Neutral}
               /\ ~last.ret
               /\ engine.y = last.y0
               /\ Pages = last.pages0

RECURSIVE SumW(_)
SumW(cards) == IF cards = <<>> THEN 0 ELSE Head(cards).w + SumW(Tail(cards))

(* C19: for any non-empty list of metrics, with or without unit lines,     *)
(* metricCards advances the cursor by 24 mm from where it stands after its *)
(* own page-break check; the cards of a call are equally wide, 3 mm apart, *)
(* and widths plus gaps make up the content width, from the left margin to *)
(* the right one.  (x and w are multiplied by the number of cards.)        *)
C19_FixedHeightEqualWidth ==
    last.op = "metricCards"
        => LET cards == last.drawn
               count == Len(last.arg)
           IN  /\ Len(cards) = count
               /\ engine.y = PostCheckY + 200 + 40
               /\ \A i \in DOMAIN cards :
                     /\ cards[i].w = cards[1].w
                     /\ cards[i].h = 200
                     /\ cards[i].y = PostCheckY
                     /\ cards[i].labelY < cards[i].y + cards[i].h
               /\ SumW(cards) + (count - 1) * 30 * count = 1820 * count
               /\ cards[1].x = 140 * count
               /\ \A i \in 1..(count - 1) :
                     cards[i + 1].x = cards[i].x + cards[i].w + 30 * count
               /\ cards[count].x + cards[count].w = (2100 - 140) * count

(* three cards, one with a unit line, after a page break *)
C19_Witness ==
    /\ last.op = "metricCards"
    /\ last.arg = << FALSE, TRUE, FALSE >>
    /\ last.ret
    /\ engine.y = 120 + 240
    /\ last.drawn[2].x = 3 * 140 + 1760 + 90

(* C20 (as stated): sectionHeader makes its page-break check before it     *)
(* draws, and every call advances the cursor by the same amount from the   *)
(* position after the check, with or without a subtitle.                   *)
C20_FixedHeight ==
    last.op = "sectionHeader"
        => /\ PageCreated <=> (last.y0 + 140 > 2970 - 180 - 140)
           /\ \A i \in DOMAIN last.drawn : last.drawn[i].y >= PostCheckY
           /\ engine.y = PostCheckY + 90 + 30

(* C20 (amended): sectionHeader makes its page-break check (for 14 mm)     *)
(* before it draws; from the position after the check it advances the      *)
(* cursor by 12 mm when no subtitle is given and by 16 mm when one is.     *)
C20_HeightBySubtitle ==
    last.op = "sectionHeader"
        => LET subtitle == Marks(last.drawn, {"subtitle"}) # {}
           IN  /\ PageCreated <=> (last.y0 + 140 > 2970 - 180 - 140)
               /\ last.ret <=> PageCreated
               /\ \A i \in DOMAIN last.drawn :
                     /\ last.drawn[i].y >= PostCheckY
                     /\ last.drawn[i].y < engine.y
               /\ engine.y = PostCheckY + (IF subtitle THEN 130 ELSE 90) + 30

C20_Witness ==
    /\ last.op = "sectionHeader"
    /\ Marks(last.drawn, {"subtitle"}) # {}
    /\ PageCreated
    /\ engine.y = 120 + 160

-----------------------------------------------------------------------------
(* Properties of the template blocks and of the engine's frame *)

RECURSIVE SumCellWidth(_)
SumCellWidth(styles) ==
    IF styles = <<>> THEN 0 ELSE Head(styles).cellWidth + SumCellWidth(Tail(styles))

(* C21: in every table the templates pass to engine.table, each column has *)
(* a fixed width and the widths add up to at most the content width, page  *)
(* width less the left and right margins.                                  *)
C21_ColumnsFitContentWidth ==
    last.op = "table"
        => /\ last.drawn # <<>>
           /\ \A i \in DOMAIN last.drawn : last.drawn[i].cellWidth > 0
           /\ SumCellWidth(last.drawn) <= pageW - marginL - marginR

(* the nine-column yarn table, narrower than the content width *)
C21_Witness ==
    /\ last.op = "table"
    /\ Len(last.drawn) = 9
    /\ SumCellWidth(last.drawn) = 1770
    /\ contentW = 1820

C21_WitnessFull == last.op = "table" /\ Len(last.drawn) = 8 /\ SumCellWidth(last.drawn) = 1820

(* the states the renderer can be in when a drawing call starts *)
GStates ==
    [ fillColor : {"black", "primary", "gray100"}, drawColor : {"black", "primary", "gray100"},
      lineWidth : {2, 3, 5}, fontSize : {16, 9, 7}, fontStyle : {"normal", "bold"},
      textColor : {"black", "primary", "gray900"} ]

(* C22: every canvas drawing call (rect, hrule, vrule, text, writeLine,     *)
(* writeWrapped) sets, in the call and before its mark is made, each color *)
(* and font attribute of the renderer that the mark uses: the mark it made *)
(* is the mark the same call makes from any other state of the renderer.   *)
C22_MarkSetsWhatItUses ==
    last.op \in DrawingCalls
        => /\ last.drawn # <<>>
           /\ \A g \in GStates : canvas(last.op, PDFEngine, g, last.arg).marks = last.drawn

(* an outlined rect drawn after a 0.5 mm rule in another color *)
C22_Witness ==
    /\ last.op = "rect"
    /\ last.drawn[1].style = "FD"
    /\ last.gs0.lineWidth = 5 /\ last.drawn[1].lineWidth = 3
    /\ last.gs0.drawColor = "primary" /\ last.drawn[1].drawColor = "gray300"
    /\ last.gs0 \in GStates

Composers == {"sectionHeader", "infoGrid", "summaryBox", "metricCards", "badge"}

(* the engine a composer leaves, given the engine it found and its input *)
compose(op, e, input) ==
    CASE op = "sectionHeader" -> sectionHeader(e, input)
      [] op = "infoGrid"      -> infoGrid(e, input)
      [] op = "summaryBox"    -> summaryBox(e, Len(input))
      [] op = "metricCards"   -> metricCards(e, Len(input))
      [] op = "badge"         -> badge(e, resolveStatus(input)).engine

(* C23: the composers keep no state between calls: a call of sectionHeader, *)
(* infoGrid, summaryBox, metricCards or badge ends with the cursor and     *)
(* with the number of pages added that the same call, on the same input,   *)
(* ends with in any other session whose cursor is at the same y, whatever  *)
(* ran earlier in either session.                                          *)
C23_SameCursorSameResult ==
    last.op \in Composers
        => \A e \in ComposeStarts :
              e.y = last.y0
                  => LET r == compose(last.op, e, last.arg)
                     IN  /\ r.y = engine.y
                         /\ r.doc.pages - e.doc.pages = engine.doc.pages - last.pages0

(* a section header that breaks the second page of a session whose pages   *)
(* carry headers, against a session that is still on its first page        *)
C23_Witness ==
    /\ last.op = "sectionHeader"
    /\ last.ret
    /\ last.pages0 = 2
    /\ engine.headerHeight > 0
    /\ \E e \in ComposeStarts :
          e.y = last.y0 /\ e.doc.pages = 1 /\ e.headerHeight = 0
                        /\ compose("sectionHeader", e, last.arg).doc.pages = 2

SelfGuarding == {"sectionHeader", "metricCards", "summaryBox", "drawSignatureBlock"}

(* the distance a call took the cursor from where its page-break check left it *)
Advance == engine.y - PostCheckY

(* C24 (as stated): sectionHeader, metricCards, summaryBox and              *)
(* drawSignatureBlock pass to their page-break check a height that is at   *)
(* least the amount they then advance the cursor by; so a call that starts *)
(* at or above the bottom limit, for a block that fits an empty page, ends *)
(* with the cursor at or above the bottom limit.                           *)
C24_CheckCoversAdvance ==
    last.op \in SelfGuarding
        => /\ last.h >= Advance
           /\ (last.y0 <= bottomLimit /\ last.h <= UsableHeight) => engine.y <= bottomLimit

(* C24 (amended): metricCards, summaryBox, drawSignatureBlock, and          *)
(* sectionHeader without a subtitle check for at least the amount they     *)
(* advance by, and end at or above the bottom limit when they start there  *)
(* with a block that fits an empty page; sectionHeader with a subtitle     *)
(* checks for 14 mm and advances by 16 mm: its bar ends at or above the    *)
(* limit, its cursor at most 2 mm below it.                                *)
C24_CheckCoversAdvanceButSubtitle ==
    last.op \in SelfGuarding
        => IF last.op = "sectionHeader" /\ last.arg
           THEN /\ last.h = 140 /\ Advance = 160
                /\ last.y0 <= bottomLimit
                      => (PostCheckY + 130 <= bottomLimit /\ engine.y <= bottomLimit + 20)
           ELSE /\ last.h >= Advance
                /\ (last.y0 <= bottomLimit /\ last.h <= UsableHeight)
                      => engine.y <= bottomLimit

(* a section header with a subtitle, 14.5 mm above the limit *)
C24_Witness ==
    /\ last.op = "sectionHeader" /\ last.arg
    /\ last.y0 = bottomLimit - 145
    /\ ~last.ret
    /\ engine.y = bottomLimit + 15

(* the step about to run sets the cursor from a y read earlier *)
UsesCapturedY ==
    /\ prog # <<>>
    /\ Cur.op \in {"sety", "maxy"}
    /\ engine'.y = locals[Cur.r].y + Cur.h

(* C25: no y read from the cursor before a page-break check is used after  *)
(* that check has created a page: when a template block sets the cursor    *)
(* from a y it read earlier (engine.y = noteY + 13, engine.y =              *)
(* Math.max(engine.y, savedY)), no page has been created since it read it. *)
C25_NoStaleY == [][UsesCapturedY => locals[Cur.r].pages = engine.doc.pages]_vars

EngineLevel == {"addPage", "checkPageBreak", "table", "addWatermark", "drawFooters"}

(* C26: after addPage, checkPageBreak, table, addWatermark and drawFooters  *)
(* engine.currentPage is the number of pages of the document and the       *)
(* renderer's active page is the last page.                                *)
C26_OnLastPage ==
    last.op \in EngineLevel
        => /\ engine.currentPage = engine.doc.pages
           /\ engine.doc.page = engine.doc.pages

(* a table that ran over onto a new page *)
C26_Witness ==
    /\ last.op = "table"
    /\ engine.doc.pages = last.pages0 + 1
    /\ engine.currentPage = engine.doc.pages
    /\ engine.doc.page = engine.doc.pages

C26_WitnessFooters == last.op = "drawFooters" /\ engine.doc.pages = 3 /\ engine.doc.page = 3

(* C27: one call of checkPageBreak returns true or false and creates at    *)
(* most one page, whatever neededHeight is; when it returns false the      *)
(* engine is as it was (cursor, currentPage, headerHeight, pages, and      *)
(* nothing drawn: the callback has not run).                               *)
C27_OnePageAtMostFalseIsNoOp ==
    [][(last'.op = "checkPageBreak" /\ calls' = calls + 1)
          => /\ last'.ret \in BOOLEAN
             /\ engine'.doc.pages <= engine.doc.pages + 1
             /\ last'.ret <=> engine'.doc.pages = engine.doc.pages + 1
             /\ ~last'.ret => engine' = engine]_vars

(* a check, on an empty page, for more than an empty page offers *)
C27_Witness ==
    /\ last.op = "checkPageBreak"
    /\ last.h > UsableHeight
    /\ last.y0 = marginT
    /\ last.pages0 = 2
    /\ last.ret
    /\ engine.doc.pages = 3

C27_WitnessFalse ==
    last.op = "checkPageBreak" /\ last.fn /\ ~last.ret /\ engine.y = last.y0 /\ last.y0 > marginT

(* C28: the passes made when composition is over leave the layout state    *)
(* alone: addWatermark and drawFooters create no page and leave the page   *)
(* count, currentPage, the cursor and headerHeight as they were; and        *)
(* addWatermark with an empty text leaves the whole engine, renderer       *)
(* included, as it was.                                                    *)
C28_PassesKeepLayout ==
    [][(last'.op \in {"addWatermark", "drawFooters"} /\ (calls' = calls + 1 \/ pc' = pc + 1))
          => /\ engine'.doc.pages = engine.doc.pages
             /\ engine'.currentPage = engine.currentPage
             /\ engine'.y = engine.y
             /\ engine'.headerHeight = engine.headerHeight
             /\ (last'.op = "addWatermark" /\ ~last'.fn) => engine' = engine]_vars

(* a watermark without text on a document of three pages *)
C28_Witness ==
    /\ last.op = "addWatermark"
    /\ ~last.fn
    /\ engine.doc.pages = 3
    /\ \A p \in 1..3 : Marks(engine.doc.ink[p], {"watermark"}) = {}

C28_WitnessText ==
    /\ last.op = "addWatermark"
    /\ last.fn
    /\ engine.doc.pages = 2
    /\ \A p \in 1..2 : Cardinality(Marks(engine.doc.ink[p], {"watermark"})) = 1

(* the rows of a grid: two half-width fields a row, in order; a fullWidth  *)
(* field closes the row that is partly filled and takes a row of its own   *)
RECURSIVE GridRows(_, _)
GridRows(fs, partlyFilled) ==
    IF fs = <<>>
    THEN IF partlyFilled THEN 1 ELSE 0
    ELSE IF Head(fs).fullWidth
         THEN (IF partlyFilled THEN 1 ELSE 0) + 1 + GridRows(Tail(fs), FALSE)
         ELSE IF partlyFilled
              THEN 1 + GridRows(Tail(fs), FALSE)
              ELSE GridRows(Tail(fs), TRUE)

(* C29: infoGrid creates no page and advances the cursor by rowHeight * R   *)
(* + 2 mm, R being the rows of the grid of the fields that are not null:   *)
(* a null entry is dropped before layout and takes no slot.                *)
C29_AdvanceByRows ==
    last.op = "infoGrid"
        => LET kept == SelectSeq(last.arg, LAMBDA f : ~f.nil)
           IN  /\ engine.doc.pages = last.pages0
               /\ ~last.ret
               /\ engine.y = last.y0 + 55 * GridRows(kept, FALSE) + 20
               /\ Len(last.drawn) = Len(kept)

(* at the bottom limit: a half-width field, a null entry, a half-width     *)
(* field and a fullWidth field make two rows                               *)
C29_Witness ==
    /\ last.op = "infoGrid"
    /\ last.arg = << Field(FALSE, ""), NullField, Field(FALSE, "v"), Field(TRUE, "v") >>
    /\ last.y0 = bottomLimit
    /\ engine.y = bottomLimit + 2 * 55 + 20
    /\ engine.doc.pages = last.pages0

C29_WitnessClosesRow ==
    /\ last.op = "infoGrid"
    /\ last.arg = << Field(FALSE, "v"), Field(TRUE, ""), Field(FALSE, "v") >>
    /\ engine.y = last.y0 + 3 * 55 + 20

(* C30: while one export action of the PdfExportButton is in flight no     *)
(* handler of a second action is started; and when the handler in flight   *)
(* has settled, by fn returning or by fn throwing, loading is false and    *)
(* activeAction null, and no error has gone to the caller.                 *)
C30_OneExportAtATime ==
    /\ Len(button.inflight) <= 1
    /\ ~button.escaped
    /\ button.inflight = <<>>
          => (~button.state.loading /\ button.state.activeAction = "null")
    /\ button.inflight # <<>>
          => (button.state.loading /\ button.state.activeAction = button.inflight[1])

(* a second export, started after the first one threw, is in flight *)
C30_Witness ==
    /\ button.started = 2
    /\ button.logged = 1
    /\ button.inflight = << "preview" >>
    /\ button.state.loading
    /\ button.seen.loading

(* the export has settled and the button still shows it as loading *)
C30_WitnessSettled ==
    /\ button.started = 1
    /\ button.inflight = <<>>
    /\ ~button.state.loading
    /\ button.seen.loading

====
